---- MODULE Spec2Model ----
(***************************************************************************)
(* A model of the jal front end: the lexer (src/src/lexer.rs) turning a    *)
(* source string into tokens and lexical errors, and the recursive-descent *)
(* parser (src/src/parser.rs) turning the tokens into statements and       *)
(* syntax errors.  The source is a sequence of UTF-8 bytes; an ASCII       *)
(* character is its own byte, and one two-byte character (U+00E9) stands   *)
(* for the non-ASCII characters.  A panic of the program (an out-of-range  *)
(* slice, Vec::remove on an empty vector, unwrap on None) is recorded in   *)
(* the panic field of the object that raised it and ends the run.          *)
(***************************************************************************)
EXTENDS Integers, Sequences, FiniteSets, TLC

VARIABLES lexer, parser, stmt, program, pc

vars == <<lexer, parser, stmt, program, pc>>

(***************************************************************************)
(* Bounds of the model.                                                    *)
(***************************************************************************)
\* Every source of at most MaxLen characters over Alphabet is an input.
MaxLen == 4
\* The unterminated-string loop appends an error per iteration for ever;
\* tokenize steps are taken only while fewer than MaxErrors are recorded.
MaxErrors == 6

(***************************************************************************)
(* Characters and bytes.                                                   *)
(***************************************************************************)
NL == "\n"
TAB == "\t"
QUOTE == "\""
BSL == "\\"
\* The two bytes of the UTF-8 encoding of U+00E9, and the character itself.
Lead == "0xC3"
Cont == "0xA9"
EAcute == "U+00E9"
\* The two bytes of the UTF-8 encoding of U+00A7 (the section sign, which is
\* not alphabetic), and the character itself.
SectionLead == "0xC2"
SectionCont == "0xA7"
Section == "U+00A7"

\* Option::None of an Option<char>.
NoChar == "None"
NoPanic == ""

Digit == {"0", "1", "2", "3", "4", "5", "6", "7", "8", "9"}
Letter ==
    {"a", "b", "c", "d", "e", "f", "g", "h", "i", "j", "k", "l", "m", "n", "o",
     "p", "q", "r", "s", "t", "u", "v", "w", "x", "y", "z",
     "A", "B", "C", "D", "E", "F", "G", "H", "I", "J", "K", "L", "M", "N", "O",
     "P", "Q", "R", "S", "T", "U", "V", "W", "X", "Y", "Z"}

KeywordTable ==
    << <<<<"i", "n", "t">>, "IntKeyword">>,
       <<<<"f", "l", "o", "a", "t">>, "FloatKeyword">>,
       <<<<"s", "t", "r", "i", "n", "g">>, "StringKeyword">>,
       <<<<"b", "o", "o", "l">>, "BoolKeyword">>,
       <<<<"t", "r", "u", "e">>, "TrueKeyword">>,
       <<<<"f", "a", "l", "s", "e">>, "FalseKeyword">>,
       <<<<"c", "o", "n", "s", "t">>, "ConstKeyword">>,
       <<<<"i", "f">>, "IfKeyword">>,
       <<<<"e", "l", "s", "e">>, "ElseKeyword">>,
       <<<<"d", "o">>, "DoKeyword">>,
       <<<<"w", "h", "i", "l", "e">>, "WhileKeyword">>,
       <<<<"f", "o", "r">>, "ForKeyword">>,
       <<<<"o", "f">>, "OfKeyword">>,
       <<<<"s", "w", "i", "t", "c", "h">>, "SwitchKeyword">>,
       <<<<"c", "a", "s", "e">>, "CaseKeyword">>,
       <<<<"b", "r", "e", "a", "k">>, "BreakKeyword">>,
       <<<<"c", "o", "n", "t", "i", "n", "u", "e">>, "ContinueKeyword">>,
       <<<<"f", "u", "n", "c", "t", "i", "o", "n">>, "FunctionKeyword">>,
       <<<<"r", "e", "t", "u", "r", "n">>, "ReturnKeyword">>,
       <<<<"e", "n", "u", "m">>, "EnumKeyword">>,
       <<<<"o", "b", "j", "e", "c", "t">>, "ObjectKeyword">>,
       <<<<"d", "i", "c", "t">>, "DictKeyword">>,
       <<<<"c", "l", "a", "s", "s">>, "ClassKeyword">>,
       <<<<"e", "x", "t", "e", "n", "d", "s">>, "ExtendsKeyword">>,
       <<<<"i", "m", "p", "l", "e", "m", "e", "n", "t", "s">>, "ImplementsKeyword">>,
       <<<<"i", "n", "t", "e", "r", "f", "a", "c", "e">>, "InterfaceKeyword">>,
       <<<<"p", "u", "b", "l", "i", "c">>, "PublicKeyword">>,
       <<<<"p", "r", "i", "v", "a", "t", "e">>, "PrivateKeyword">>,
       <<<<"s", "t", "a", "t", "i", "c">>, "StaticKeyword">>,
       <<<<"i", "m", "p", "o", "r", "t">>, "ImportKeyword">>,
       <<<<"f", "r", "o", "m">>, "FromKeyword">>,
       <<<<"e", "x", "p", "o", "r", "t">>, "ExportKeyword">>,
       <<<<"d", "e", "f", "a", "u", "l", "t">>, "DefaultKeyword">>,
       <<<<"n", "e", "w">>, "NewKeyword">>,
       <<<<"t", "h", "i", "s">>, "ThisKeyword">> >>

(***************************************************************************)
(* Tokens (src/src/token.rs).  A TokenType is its variant tag and payload  *)
(* (the name of an Identifier, the value of an Int, Float or String; <<>>  *)
(* for the variants without payload).                                      *)
(***************************************************************************)
TT(tag) == [tag |-> tag, val |-> <<>>]
TTV(tag, val) == [tag |-> tag, val |-> val]

\* Token::new
Token(token_type, l, c) == [token_type |-> token_type, line |-> l, column |-> c]

PayloadTags == {"Identifier", "Int", "Float", "String"}

\* #[derive(PartialEq)] on TokenType: same variant and same payload.
TokenTypeEq(a, b) == a.tag = b.tag /\ (a.tag \in PayloadTags => a.val = b.val)

(***************************************************************************)
(* Slices of the source: &source[pos..] panics when pos is past the end or *)
(* inside a multi-byte character.  Positions are 0-based byte offsets.     *)
(***************************************************************************)
CharBoundary(src, pos) ==
    pos = 0 \/ pos = Len(src) \/ (pos < Len(src) /\ src[pos + 1] \notin {Cont, SectionCont})

SliceOk(src, pos) == pos <= Len(src) /\ CharBoundary(src, pos)

\* source[pos..].chars().next()
CharsNext(src, pos) ==
    IF pos >= Len(src) THEN NoChar
    ELSE IF src[pos + 1] = Lead THEN EAcute
    ELSE IF src[pos + 1] = SectionLead THEN Section
    ELSE src[pos + 1]

\* The bytes src[from..to) (0-based, to exclusive).
Bytes(src, from, to) == SubSeq(src, from + 1, to)

RECURSIVE Decode(_)
\* The characters of a byte string.
Decode(bs) ==
    IF bs = <<>> THEN <<>>
    ELSE IF Head(bs) = Lead THEN <<EAcute>> \o Decode(Tail(Tail(bs)))
    ELSE IF Head(bs) = SectionLead THEN <<Section>> \o Decode(Tail(Tail(bs)))
    ELSE <<Head(bs)>> \o Decode(Tail(bs))

RECURSIVE Encode(_)
\* The bytes of a character string.
Encode(cs) ==
    IF cs = <<>> THEN <<>>
    ELSE IF Head(cs) = EAcute THEN <<Lead, Cont>> \o Encode(Tail(cs))
    ELSE IF Head(cs) = Section THEN <<SectionLead, SectionCont>> \o Encode(Tail(cs))
    ELSE <<Head(cs)>> \o Encode(Tail(cs))

(***************************************************************************)
(* Lexer (src/src/lexer.rs).  A Lexer is the record of its fields plus the *)
(* panic flag.                                                             *)
(***************************************************************************)
\* char::is_alphabetic() || c == '_'
is_valid_identifier_start(c) == c \in Letter \/ c = EAcute \/ c = "_"

consume(L) ==
    IF L.panic # NoPanic THEN L
    ELSE LET pos == L.current_position + 1 IN
         IF SliceOk(L.source, pos)
         THEN [L EXCEPT !.current_position = pos,
                        !.column = @ + 1,
                        !.current_char = CharsNext(L.source, pos)]
         ELSE [L EXCEPT !.current_position = pos,
                        !.column = @ + 1,
                        !.panic = "slice index out of range or not a char boundary"]

peek(L) == CharsNext(L.source, L.current_position + 1)

\* add_token with the new token inserted at the front of the list.
add_token_front(L, token_type) ==
    IF L.panic # NoPanic THEN L
    ELSE [L EXCEPT !.tokens = <<Token(token_type, L.line, L.column)>> \o @]

\* add_token with the line and the column of the token exchanged.
add_token_swapped(L, token_type) ==
    IF L.panic # NoPanic THEN L
    ELSE [L EXCEPT !.tokens = Append(@, Token(token_type, L.column, L.line))]

add_token(L, token_type) ==
    IF L.panic # NoPanic THEN L
    ELSE [L EXCEPT !.tokens = Append(@, Token(token_type, L.line, L.column))]

error(L, message) ==
    IF L.panic # NoPanic THEN L
    ELSE [L EXCEPT !.errors = Append(@, [message |-> message,
                                          line |-> L.line,
                                          column |-> L.column])]

RECURSIVE ScanToNewline(_, _)
\* The offset of the first newline at or after i, or the end of the source.
ScanToNewline(src, i) ==
    IF i >= Len(src) \/ src[i + 1] = NL THEN i ELSE ScanToNewline(src, i + 1)

RECURSIVE ScanToCommentEnd(_, _)
\* The offset just past the first "*/" starting at or after i, or -1.
ScanToCommentEnd(src, i) ==
    IF i + 1 >= Len(src) THEN -1
    ELSE IF src[i + 1] = "*" /\ src[i + 2] = "/" THEN i + 2
    ELSE ScanToCommentEnd(src, i + 1)

\* mat.end() of regex.find(&source[pos..]) for the two comment regexes, as an
\* offset in the source; -1 when there is no match.  The remaining source
\* starts with "//" or "/*", so a match, if any, starts at pos.
single_line_comment_regex(src, pos) == ScanToNewline(src, pos + 2)
multi_line_comment_regex(src, pos) == ScanToCommentEnd(src, pos + 2)

skip_comment(L, matchEnd) ==
    IF L.panic # NoPanic THEN L
    ELSE IF matchEnd = -1 THEN L
    ELSE LET comment_end == matchEnd - L.current_position IN
         [L EXCEPT !.current_position = @ + comment_end,
                   !.column = @ + comment_end,
                   !.current_char = CharsNext(L.source, matchEnd)]

RECURSIVE ScanString(_, _)
\* string_regex ^"([^"\\]|\\.)*" from the byte after the opening quote: the
\* offset just past the closing quote, or -1.  '.' matches no newline.
ScanString(src, i) ==
    IF i >= Len(src) THEN -1
    ELSE IF src[i + 1] = QUOTE THEN i + 1
    ELSE IF src[i + 1] = BSL
         THEN IF i + 1 >= Len(src) \/ src[i + 2] = NL THEN -1
              ELSE IF src[i + 2] \in {Lead, SectionLead} THEN ScanString(src, i + 3)
              ELSE ScanString(src, i + 2)
    ELSE ScanString(src, i + 1)

string_regex(src, pos) == ScanString(src, pos + 1)

RECURSIVE DigitRun(_, _)
\* The number of digits of the source from offset i on.
DigitRun(src, i) ==
    IF i < Len(src) /\ src[i + 1] \in Digit THEN 1 + DigitRun(src, i + 1) ELSE 0

\* int_regex ^\d+ and float_regex ^\d+\.\d+ at pos: the offset past the match,
\* or -1.
int_regex(src, pos) ==
    IF DigitRun(src, pos) >= 1 THEN pos + DigitRun(src, pos) ELSE -1

float_regex(src, pos) ==
    LET d1 == DigitRun(src, pos)
        dot == pos + d1
    IN IF d1 >= 1 /\ dot < Len(src) /\ src[dot + 1] = "." /\ DigitRun(src, dot + 1) >= 1
       THEN dot + 1 + DigitRun(src, dot + 1)
       ELSE -1

RECURSIVE AdvanceLineColumn(_, _)
\* The loop of consume_matched_string over the characters of the match:
\* a pair <<line, column>>.
AdvanceLineColumn(lc, cs) ==
    IF cs = <<>> THEN lc
    ELSE AdvanceLineColumn(IF Head(cs) = NL THEN <<lc[1] + 1, 1>>
                                           ELSE <<lc[1], lc[2] + 1>>,
                           Tail(cs))

consume_matched_string(L, matched_string) ==
    IF L.panic # NoPanic THEN L
    ELSE LET pos == L.current_position + Len(matched_string)
             lc == AdvanceLineColumn(<<L.line, L.column>>, Decode(matched_string))
         IN [L EXCEPT !.current_position = pos,
                      !.line = lc[1],
                      !.column = lc[2],
                      !.current_char = CharsNext(L.source, pos)]

RECURSIVE process_escape_sequences(_)
process_escape_sequences(input) ==
    IF input = <<>> THEN <<>>
    ELSE IF Head(input) = BSL
         THEN IF Len(input) = 1 THEN <<BSL>>
              ELSE LET e == input[2]
                       rest == process_escape_sequences(Tail(Tail(input)))
                   IN CASE e = "n" -> <<NL>> \o rest
                        [] e = "t" -> <<TAB>> \o rest
                        [] e = "r" -> <<"\r">> \o rest
                        [] e = BSL -> <<BSL>> \o rest
                        [] e = QUOTE -> <<QUOTE>> \o rest
                        [] OTHER -> <<BSL, e>> \o rest
    ELSE <<Head(input)>> \o process_escape_sequences(Tail(input))

string(L) ==
    LET matchEnd == string_regex(L.source, L.current_position) IN
    IF matchEnd # -1
    THEN LET string_literal == Bytes(L.source, L.current_position, matchEnd)
             inner == SubSeq(string_literal, 2, Len(string_literal) - 1)
             value == process_escape_sequences(Decode(inner))
         IN add_token(consume_matched_string(L, string_literal), TTV("String", value))
    ELSE error(L, <<"Unterminated string literal">>)

RECURSIVE StripLeadingZeros(_)
StripLeadingZeros(ds) ==
    IF Len(ds) > 1 /\ Head(ds) = "0" THEN StripLeadingZeros(Tail(ds)) ELSE ds

RECURSIVE StripTrailingZeros(_)
StripTrailingZeros(ds) ==
    IF Len(ds) > 1 /\ ds[Len(ds)] = "0"
    THEN StripTrailingZeros(SubSeq(ds, 1, Len(ds) - 1)) ELSE ds

DigitValue(d) ==
    CASE d = "0" -> 0 [] d = "1" -> 1 [] d = "2" -> 2 [] d = "3" -> 3
      [] d = "4" -> 4 [] d = "5" -> 5 [] d = "6" -> 6 [] d = "7" -> 7
      [] d = "8" -> 8 [] d = "9" -> 9

RECURSIVE DigitsLessEq(_, _)
\* Two digit strings of the same length, compared as numbers.
DigitsLessEq(a, b) ==
    IF a = <<>> THEN TRUE
    ELSE IF DigitValue(Head(a)) < DigitValue(Head(b)) THEN TRUE
    ELSE IF DigitValue(Head(a)) > DigitValue(Head(b)) THEN FALSE
    ELSE DigitsLessEq(Tail(a), Tail(b))

I32Max == <<"2", "1", "4", "7", "4", "8", "3", "6", "4", "7">>

\* Whether int_literal.parse::<i32>() is Ok: the value is at most i32::MAX.
ParsesAsI32(ds) ==
    LET n == StripLeadingZeros(ds) IN
    Len(n) < Len(I32Max) \/ (Len(n) = Len(I32Max) /\ DigitsLessEq(n, I32Max))

RECURSIVE DigitsValue(_, _)
\* The value of a digit string that parses as an i32 (acc: the value so far).
DigitsValue(ds, acc) ==
    IF ds = <<>> THEN acc ELSE DigitsValue(Tail(ds), 10 * acc + DigitValue(Head(ds)))

\* float_literal.parse::<f32>() is Ok for every digits.digits literal.  The
\* value is kept as the decimal it denotes: the integer digits without
\* leading zeros and the fraction digits without trailing zeros.
FloatValue(lexeme) ==
    LET dot == CHOOSE i \in 1..Len(lexeme) : lexeme[i] = "."
    IN [int |-> StripLeadingZeros(SubSeq(lexeme, 1, dot - 1)),
        frac |-> StripTrailingZeros(SubSeq(lexeme, dot + 1, Len(lexeme)))]

number(L) ==
    LET floatEnd == float_regex(L.source, L.current_position)
        intEnd == int_regex(L.source, L.current_position)
    IN IF floatEnd # -1
       THEN LET float_literal == Bytes(L.source, L.current_position, floatEnd)
            IN add_token(consume_matched_string(L, float_literal),
                         TTV("Float", FloatValue(float_literal)))
       ELSE IF intEnd # -1
       THEN LET int_literal == Bytes(L.source, L.current_position, intEnd)
                L1 == consume_matched_string(L, int_literal)
            IN IF ParsesAsI32(int_literal)
               THEN add_token(L1, TTV("Int", DigitsValue(int_literal, 0)))
               ELSE error(L1, <<"Invalid integer literal">>)
       ELSE error(L, <<"Invalid number literal">>)

RECURSIVE IdentifierLoop(_)
\* The while loop of identifier(): consume while the current character is
\* alphabetic, a digit or '_'.
IdentifierLoop(L) ==
    IF /\ L.panic = NoPanic
       /\ L.current_char # NoChar
       /\ (is_valid_identifier_start(L.current_char)
             \/ L.current_char \in Digit
             \/ L.current_char = "_")
    THEN IdentifierLoop(consume(L))
    ELSE L

\* The keyword of the table a word matches, or NoChar.
KeywordOf(word) ==
    IF \E i \in 1..Len(KeywordTable) : KeywordTable[i][1] = word
    THEN KeywordTable[CHOOSE i \in 1..Len(KeywordTable) : KeywordTable[i][1] = word][2]
    ELSE NoChar

identifier(L) ==
    LET start_position == L.current_position
        L1 == IdentifierLoop(L)
    IN IF L1.panic # NoPanic THEN L1
       ELSE LET word == Decode(Bytes(L.source, start_position, L1.current_position))
            IN add_token(L1, IF KeywordOf(word) # NoChar
                             THEN TT(KeywordOf(word))
                             ELSE TTV("Identifier", word))

\* One arm of the form: if the next character is `second`, one two-character
\* token (consume, add_token, consume).
TwoChar(L, token_type) == consume(add_token(consume(L), token_type))

\* A single-character token (add_token, consume).
OneChar(L, token_type) == consume(add_token(L, token_type))

\* The body of the while loop of tokenize for the current character c: the
\* first arm of the match that applies.  The second '/' arm (lines 94-102) and
\* the second '=' arm (lines 209-217) are shadowed by the first ones.
TokenizeArm(L) ==
    LET c == L.current_char
        nx == peek(L)
    IN CASE c \in {" ", TAB} -> consume(L)
         [] c = NL -> consume([L EXCEPT !.line = @ + 1, !.column = 1])
         [] c = "/" ->
              IF nx = "/"
              THEN skip_comment(L, single_line_comment_regex(L.source, L.current_position))
              ELSE IF nx = "*"
              THEN skip_comment(L, multi_line_comment_regex(L.source, L.current_position))
              ELSE OneChar(L, TT("Slash"))
         [] c = "+" ->
              IF nx = "+" THEN TwoChar(L, TT("PlusPlus"))
              ELSE IF nx = "=" THEN TwoChar(L, TT("PlusEquals"))
              ELSE OneChar(L, TT("Plus"))
         [] c = "-" ->
              IF nx = "-" THEN TwoChar(L, TT("MinusMinus"))
              ELSE IF nx = "=" THEN TwoChar(L, TT("MinusEquals"))
              ELSE OneChar(L, TT("Minus"))
         [] c = "*" ->
              IF nx = "=" THEN TwoChar(L, TT("StarEquals")) ELSE OneChar(L, TT("Star"))
         [] c = "%" ->
              IF nx = "=" THEN TwoChar(L, TT("PercentEquals"))
              ELSE OneChar(L, TT("Percent"))
         [] c = "=" ->
              IF nx = "=" THEN TwoChar(L, TT("EqualsEquals"))
              ELSE IF nx = ">" THEN TwoChar(L, TT("EqualsGreaterThan"))
              ELSE OneChar(L, TT("Equals"))
         [] c = "!" ->
              IF nx = "=" THEN TwoChar(L, TT("NotEquals")) ELSE OneChar(L, TT("LogicalNot"))
         [] c = ">" ->
              IF nx = "=" THEN TwoChar(L, TT("GreaterThanEquals"))
              ELSE OneChar(L, TT("GreaterThan"))
         [] c = "<" ->
              IF nx = "=" THEN TwoChar(L, TT("LessThanEquals"))
              ELSE OneChar(L, TT("LessThan"))
         [] c = "&" ->
              IF nx = "&" THEN add_token(consume(L), TT("LogicalAnd"))
              ELSE consume(error(L, <<"Invalid character", "&">>))
         [] c = "|" ->
              IF nx = "|" THEN add_token(consume(L), TT("LogicalOr"))
              ELSE consume(error(L, <<"Invalid character", "|">>))
         [] c = ";" -> OneChar(L, TT("Semicolon"))
         [] c = "," -> OneChar(L, TT("Comma"))
         [] c = ":" -> OneChar(L, TT("Colon"))
         [] c = "." -> OneChar(L, TT("Dot"))
         [] c = "(" -> OneChar(L, TT("LeftParen"))
         [] c = ")" -> OneChar(L, TT("RightParen"))
         [] c = "{" -> OneChar(L, TT("LeftBrace"))
         [] c = "}" -> OneChar(L, TT("RightBrace"))
         [] c = "[" -> OneChar(L, TT("LeftBracket"))
         [] c = "]" -> OneChar(L, TT("RightBracket"))
         [] c = QUOTE -> string(L)
         [] c \in Digit -> number(L)
         [] OTHER ->
              IF is_valid_identifier_start(c) THEN identifier(L)
              ELSE consume(error(L, <<"Unexpected character", c>>))

\* The struct literal of Lexer::new (lines 17-25), before its consume().
LexerLiteral(src) ==
    [source |-> src,
     current_char |-> IF src = <<>> THEN "\\0" ELSE CharsNext(src, 0),
     current_position |-> 0,
     line |-> 1,
     column |-> 1,
     tokens |-> <<>>,
     errors |-> <<>>,
     panic |-> NoPanic]

(***************************************************************************)
(* Parser (src/src/parser.rs).  A Parser is the record of its fields (the  *)
(* lexer it owns, with the tokens not yet taken) and of the state of the   *)
(* call in progress:                                                       *)
(*   frames    the local variables of the parse functions entered, the     *)
(*             innermost last; a frame starts as the node the function     *)
(*             builds, with the values its `let`s start with;              *)
(*   returned  the innermost function has executed a return;               *)
(*   r         the value the last function returned;                       *)
(*   ok        the boolean expect_peek returned last;                      *)
(*   panic     the panic raised, if any.                                   *)
(* A parse function maps the parser at its call to the parser at its       *)
(* return and is written as the sequence of its statements, the first      *)
(* innermost.  A statement leaves the parser unchanged once the function   *)
(* has returned or a panic is raised.  An AST node is a record tagged by   *)
(* kind; Option::None is the record None, Some(x) of a node is the node,   *)
(* Some(v) of a vector or string is the record Some(v).                    *)
(***************************************************************************)
None == [kind |-> "None"]
Some(v) == [kind |-> "Some", v |-> v]
IsNone(x) == x.kind = "None"

\* TokenType::Identifier(String::new()) and TokenType::String(String::new())
IdentEmpty == TTV("Identifier", <<>>)
StringEmpty == TTV("String", <<>>)

Done(P) == P.panic # NoPanic \/ P.returned

\* A failing unwrap(), or any other panic.
Panic(P, why) == IF Done(P) THEN P ELSE [P EXCEPT !.panic = why]

\* self.errors.push(msg)
PushError(P, msg) == IF Done(P) THEN P ELSE [P EXCEPT !.errors = Append(@, msg)]

\* The frame of a call made after the caller has returned: no statement of
\* the callee is executed.
Skipped == [kind |-> "Skipped"]

\* The locals of the innermost function.
Frame(P) == P.frames[Len(P.frames)]

\* The call of a function whose locals start as frame.
Enter(frame, P) ==
    IF P.panic # NoPanic THEN P
    ELSE [P EXCEPT !.frames = Append(@, IF P.returned THEN Skipped ELSE frame)]

\* The exit of the function: its frame goes, its caller goes on.
Leave(P) ==
    IF P.panic # NoPanic THEN P
    ELSE IF Frame(P) = Skipped
    THEN [P EXCEPT !.frames = SubSeq(@, 1, Len(@) - 1)]
    ELSE [P EXCEPT !.frames = SubSeq(@, 1, Len(@) - 1), !.returned = FALSE]

\* The value of a function that has no early return and no local to keep
\* across a call.
Yield(v, P) == IF Done(P) THEN P ELSE [P EXCEPT !.r = v]

\* return v;
Return(v, P) == IF Done(P) THEN P ELSE [P EXCEPT !.r = v, !.returned = TRUE]

ReturnNone(P) == Return(None, P)

\* return <the local name>;
ReturnLocal(name, P) == IF Done(P) THEN P ELSE Return(Frame(P)[name], P)

\* The locals of a frame that are no field of the node built from it.
Locals == {"case_expr", "case_statements"}

\* Some(<the node of the frame>) as the last expression of the function.
ReturnSome(P) ==
    IF Done(P) THEN P
    ELSE Return([f \in DOMAIN Frame(P) \ Locals |-> Frame(P)[f]], P)

\* <the local name>.map(|x| <the node of the frame>) as the last expression.
ReturnMap(name, P) ==
    IF Done(P) THEN P
    ELSE IF IsNone(Frame(P)[name]) THEN ReturnNone(P) ELSE ReturnSome(P)

\* if <the value just returned>.is_none() { return None; }
ReturnIfNone(P) == IF Done(P) THEN P ELSE IF IsNone(P.r) THEN ReturnNone(P) ELSE P

\* The value just returned with `?` in place of unwrap(): None is returned to
\* the caller.
UnwrapOrReturn(P) == IF Done(P) THEN P ELSE IF IsNone(P.r) THEN ReturnNone(P) ELSE P

\* <the value just returned>.unwrap()
Unwrap(P) ==
    IF Done(P) THEN P
    ELSE IF IsNone(P.r) THEN Panic(P, "called Option::unwrap() on a None value")
    ELSE P

\* let name = v;
SetLocal(name, v, P) ==
    IF Done(P) THEN P ELSE [P EXCEPT !.frames[Len(P.frames)][name] = v]

\* The name held by the current token, an Identifier.
CurrentIdentifier(P) == P.current_token.token_type.val

\* let name = match self.current_token.token_type { Identifier(i) => i, .. };
SetIdentifier(name, P) == SetLocal(name, CurrentIdentifier(P), P)

SetSomeIdentifier(name, P) == SetLocal(name, Some(CurrentIdentifier(P)), P)

\* name = <the value just returned>;
SetResult(name, P) == SetLocal(name, P.r, P)

\* name.push(<the value just returned>);
Push(name, P) ==
    IF Done(P) THEN P ELSE SetLocal(name, Append(Frame(P)[name], P.r), P)

\* if let Some(x) = <the value just returned> { name.push(x); }
PushIfSome(name, P) ==
    IF Done(P) THEN P ELSE IF IsNone(P.r) THEN P ELSE Push(name, P)

\* name.push(<the identifier of the current token>), or, with a tag, the
\* push of the specifier tag(identifier).
PushIdentifier(name, tag, P) ==
    IF Done(P) THEN P
    ELSE SetLocal(name,
                  Append(Frame(P)[name],
                         IF tag = "" THEN CurrentIdentifier(P)
                         ELSE <<tag, CurrentIdentifier(P)>>),
                  P)

\* name.push((key, <the value just returned>)) for the key pushed last.
Pair(name, P) ==
    IF Done(P) THEN P
    ELSE [P EXCEPT !.frames[Len(P.frames)][name][Len(Frame(P)[name])] = <<@, P.r>>]

\* Vec::remove(0) panics on an empty vector.
next_token(P) ==
    IF Done(P) THEN P
    ELSE IF P.lexer.tokens = <<>>
    THEN [P EXCEPT !.current_token = P.peek_token,
                   !.panic = "Vec::remove(0) on an empty token list"]
    ELSE [P EXCEPT !.current_token = P.peek_token,
                   !.peek_token = Head(P.lexer.tokens),
                   !.lexer.tokens = Tail(@)]

peek_token_is(P, token_type) == TokenTypeEq(P.peek_token.token_type, token_type)

current_token_is(P, token_type) == TokenTypeEq(P.current_token.token_type, token_type)

peek_error(P, token_type) ==
    PushError(P, <<"Expected token", token_type, P.peek_token.token_type>>)

\* The boolean returned is the field ok.
expect_peek(P, token_type) ==
    IF Done(P) THEN P
    ELSE IF peek_token_is(P, token_type)
    THEN [next_token(P) EXCEPT !.ok = TRUE]
    ELSE [peek_error(P, token_type) EXCEPT !.ok = FALSE]

\* if !<the expect_peek just made> { return None; }
OrReturnNone(P) == IF Done(P) THEN P ELSE IF P.ok THEN P ELSE ReturnNone(P)

\* if !self.expect_peek(token_type) { return None; }
Expect(token_type, P) == OrReturnNone(expect_peek(P, token_type))

get_precedence(token_type) ==
    LET t == token_type.tag IN
    CASE t \in {"Equals", "PlusEquals", "MinusEquals", "StarEquals", "SlashEquals",
                "PercentEquals"} -> 1
      [] t = "LogicalOr" -> 2
      [] t = "LogicalAnd" -> 3
      [] t \in {"EqualsEquals", "NotEquals"} -> 4
      [] t \in {"GreaterThan", "LessThan", "GreaterThanEquals", "LessThanEquals"} -> 5
      [] t \in {"Plus", "Minus"} -> 6
      [] t \in {"Star", "Slash", "Percent"} -> 7
      [] t = "LeftParen" -> 8
      [] t = "LeftBracket" -> 9
      [] t = "Dot" -> 10
      [] OTHER -> -1

peek_precedence(P) == get_precedence(P.peek_token.token_type)

prefix_precedence(P) ==
    IF P.current_token.token_type.tag \in {"Minus", "LogicalNot"} THEN 7 ELSE -1

infix_precedence(P) == get_precedence(P.current_token.token_type)

assignment_precedence == 1

\* The comparison with <= in place of <.
PrecedenceLessOrEqual(precedence, n) == IsNone(precedence) \/ precedence.v <= n

\* precedence < Some(n) on Option<i32>: None is less than every Some.
PrecedenceLess(precedence, n) == IsNone(precedence) \/ precedence.v < n

RECURSIVE skip_to_next_statement(_)
skip_to_next_statement(P) ==
    IF \/ Done(P)
       \/ current_token_is(P, TT("Semicolon"))
       \/ current_token_is(P, TT("RightBrace"))
       \/ current_token_is(P, TT("EOF"))
    THEN P
    ELSE skip_to_next_statement(next_token(P))

BinaryOperators ==
    {"Plus", "Minus", "Star", "Slash", "Percent", "EqualsEquals", "NotEquals",
     "GreaterThan", "LessThan", "GreaterThanEquals", "LessThanEquals",
     "LogicalAnd", "LogicalOr"}

AssignmentOperators ==
    {"Equals", "PlusEquals", "MinusEquals", "StarEquals", "SlashEquals",
     "PercentEquals"}

TypeKeywords == {"IntKeyword", "FloatKeyword", "StringKeyword", "BoolKeyword"}

\* The type name a type keyword stands for.
TypeNameOf(tag) ==
    CASE tag = "IntKeyword" -> Some(<<"i", "n", "t">>)
      [] tag = "FloatKeyword" -> Some(<<"f", "l", "o", "a", "t">>)
      [] tag = "StringKeyword" -> Some(<<"s", "t", "r", "i", "n", "g">>)
      [] tag = "BoolKeyword" -> Some(<<"b", "o", "o", "l">>)
      [] OTHER -> None

\* No diagnostic at all.
NoDiagnostic(P) == P

\* self.errors.push(format!("Unexpected token: {:?}", self.current_token))
UnexpectedToken(P) == PushError(P, <<"Unexpected token", P.current_token>>)

RECURSIVE parse_statement(_)
RECURSIVE parse_expression(_, _)
RECURSIVE InfixLoop(_, _)
RECURSIVE parse_block_statement(_)
RECURSIVE parse_if_statement(_)
RECURSIVE ExpressionListLoop(_, _)
RECURSIVE CallArgumentsLoop(_)
RECURSIVE DictLoop(_)

parse_identifier_expression(P) ==
    Yield([kind |-> "Identifier", token |-> P.current_token,
           name |-> P.current_token.token_type.val], P)

\* The value of the literal a token is, lines 512-517.
LiteralValue(token_type) ==
    IF token_type.tag \in {"Int", "Float", "String"}
    THEN [type |-> token_type.tag, value |-> token_type.val]
    ELSE [type |-> "Bool", value |-> (token_type.tag = "TrueKeyword")]

parse_literal_expression(P) ==
    IF P.current_token.token_type.tag
          \in {"Int", "Float", "String", "TrueKeyword", "FalseKeyword"}
    THEN Yield([kind |-> "Literal", token |-> P.current_token,
                value |-> LiteralValue(P.current_token.token_type)], P)
    ELSE Yield(None, UnexpectedToken(P))

\* self.parse_expression(Some(self.prefix_precedence())), line 541
PrefixOperand(P) == parse_expression(P, Some(prefix_precedence(P)))

parse_prefix_expression(P) ==
    IF P.current_token.token_type.tag \notin {"Minus", "LogicalNot"}
    THEN Yield(None, UnexpectedToken(P))
    ELSE Leave(ReturnMap("operand",
         SetResult("operand",
         PrefixOperand(
         next_token(
         Enter([kind |-> "UnaryOperation", token |-> P.current_token,
                operator |-> P.current_token.token_type, operand |-> None],
               P))))))

parse_infix_expression(P, left) ==
    IF P.current_token.token_type.tag \notin BinaryOperators
    THEN Yield(None, UnexpectedToken(P))
    ELSE Leave(ReturnMap("right",
         SetResult("right",
         parse_expression(
             next_token(
             Enter([kind |-> "BinaryOperation", token |-> P.current_token,
                    left |-> left, operator |-> P.current_token.token_type,
                    right |-> None],
                   P)),
             Some(infix_precedence(P))))))

parse_assignment_expression(P, left) ==
    IF P.current_token.token_type.tag \notin AssignmentOperators
    THEN Yield(None, UnexpectedToken(P))
    ELSE Leave(ReturnMap("right",
         SetResult("right",
         parse_expression(
             next_token(
             Enter([kind |-> "Assignment", token |-> P.current_token,
                    left |-> left, right |-> None],
                   P)),
             Some(assignment_precedence)))))

\* The while loop of parse_call_expression, lines 627-631.
CallArgumentsLoop(P) ==
    IF Done(P) \/ ~peek_token_is(P, TT("Comma")) THEN P
    ELSE CallArgumentsLoop(
         Push("arguments",
         Unwrap(
         parse_expression(next_token(next_token(P)), None))))

parse_call_expression(P, function) ==
    IF peek_token_is(P, TT("RightParen"))
    THEN Yield([kind |-> "FunctionCall", token |-> P.current_token,
                callee |-> function, arguments |-> <<>>],
               next_token(P))
    ELSE Leave(ReturnSome(
         Expect(TT("RightParen"),
         CallArgumentsLoop(
         Push("arguments",
         Unwrap(
         parse_expression(
             next_token(
             Enter([kind |-> "FunctionCall", token |-> P.current_token,
                    callee |-> function, arguments |-> <<>>],
                   P)),
             None)))))))

\* if self.peek_token_is(Comma) { self.next_token(); } else { break; },
\* lines 676-680, and the next turn of the loop.
DictLoopEnd(P) ==
    IF Done(P) THEN P
    ELSE IF peek_token_is(P, TT("Comma")) THEN DictLoop(next_token(P))
    ELSE P

\* The while loop of parse_dict_literal, lines 650-681.
DictLoop(P) ==
    IF Done(P) \/ current_token_is(P, TT("RightBrace")) THEN P
    ELSE DictLoopEnd(
         Pair("pairs",
         ReturnIfNone(
         parse_expression(
             next_token(
             Expect(TT("Colon"),
             Push("pairs",
             ReturnIfNone(
             parse_expression(P, None))))),
             None))))

parse_dict_literal(P) ==
    Leave(ReturnSome(
    Expect(TT("RightBrace"),
    DictLoop(
    next_token(
    Enter([kind |-> "DictLiteral", token |-> P.current_token, pairs |-> <<>>],
          P))))))

\* parse_block_expression is called at line 374 and defined nowhere in the
\* repository.  Modelled from the specification ("otherwise it is treated as
\* a block expression"): the statements up to the closing brace.
parse_block_expression(P) ==
    Leave(ReturnSome(
    SetResult("statements",
    parse_block_statement(
    Enter([kind |-> "BlockExpression", token |-> P.current_token,
           statements |-> <<>>],
          P)))))

parse_index_expression(P, array) ==
    Leave(ReturnMap("index",
    Expect(TT("RightBracket"),
    SetResult("index",
    parse_expression(
        next_token(
        Enter([kind |-> "IndexAccess", token |-> P.current_token,
               array |-> array, index |-> None],
              P)),
        None)))))

parse_member_access(P, object) ==
    Leave(ReturnSome(
    SetIdentifier("member",
    Expect(IdentEmpty,
    Enter([kind |-> "MemberAccess", token |-> P.current_token,
           object |-> object, member |-> <<>>],
          P)))))

\* Lines 488-496: the terminator and return Some(expressions), or the comma
\* and the next turn of the loop.
ExpressionListNext(P, terminator) ==
    IF Done(P) THEN P
    ELSE IF ~peek_token_is(P, TT("Comma"))
    THEN ReturnSome(Expect(terminator, P))
    ELSE ExpressionListLoop(next_token(P), terminator)

\* The loop of parse_expression_list, lines 478-497.
ExpressionListLoop(P, terminator) ==
    IF Done(P) THEN P
    ELSE ExpressionListNext(
             Push("v", ReturnIfNone(parse_expression(P, None))),
             terminator)

\* The frame is Some(expressions).
parse_expression_list(P, terminator) ==
    IF peek_token_is(P, terminator)
    THEN Yield(Some(<<>>), next_token(P))
    ELSE Leave(ExpressionListLoop(Enter(Some(<<>>), P), terminator))

\* let arguments = self.parse_expression_list(TokenType::RightParen)?;
NewArguments(P) ==
    IF Done(P) THEN P
    ELSE IF IsNone(P.r) THEN ReturnNone(P)
    ELSE SetLocal("arguments", P.r.v, P)

parse_new_expression(P) ==
    Leave(ReturnSome(
    NewArguments(
    parse_expression_list(
        Expect(TT("LeftParen"),
        SetIdentifier("class_name",
        Expect(IdentEmpty,
        Enter([kind |-> "NewExpression", token |-> P.current_token,
               class_name |-> <<>>, arguments |-> <<>>],
              P)))),
        TT("RightParen")))))

\* The match of parse_expression, lines 350-388: left_expr is the value
\* returned last.
PrimaryExpression(P) ==
    LET t == P.current_token.token_type.tag IN
    IF Done(P) THEN P ELSE
    CASE t = "Identifier" -> parse_identifier_expression(P)
      [] t \in {"Int", "Float", "String", "TrueKeyword", "FalseKeyword"} ->
            parse_literal_expression(P)
      [] t \in {"Minus", "LogicalNot"} -> parse_prefix_expression(P)
      [] t = "LeftParen" ->
            Expect(TT("RightParen"), parse_expression(next_token(P), None))
      [] t = "LeftBrace" ->
            IF peek_token_is(P, IdentEmpty) \/ peek_token_is(P, StringEmpty)
            THEN parse_dict_literal(P)
            ELSE parse_block_expression(P)
      [] t = "NewKeyword" -> parse_new_expression(P)
      [] t = "ThisKeyword" ->
            Yield([kind |-> "This", token |-> P.current_token], next_token(P))
      [] OTHER -> ReturnNone(UnexpectedToken(P))

\* The while loop of parse_expression, lines 394-439.
InfixLoop(P, precedence) ==
    IF \/ Done(P)
       \/ peek_token_is(P, TT("Semicolon"))
       \/ ~PrecedenceLess(precedence, peek_precedence(P))
    THEN P
    ELSE LET t == P.peek_token.token_type.tag IN
         CASE t \in BinaryOperators ->
                InfixLoop(ReturnIfNone(
                    parse_infix_expression(next_token(P), P.r)), precedence)
           [] t = "LeftParen" ->
                InfixLoop(ReturnIfNone(
                    parse_call_expression(next_token(P), P.r)), precedence)
           [] t = "LeftBracket" ->
                InfixLoop(ReturnIfNone(
                    parse_index_expression(next_token(P), P.r)), precedence)
           [] t = "Dot" ->
                InfixLoop(ReturnIfNone(
                    parse_member_access(next_token(P), P.r)), precedence)
           [] t \in AssignmentOperators ->
                InfixLoop(ReturnIfNone(
                    parse_assignment_expression(next_token(P), P.r)), precedence)
           [] OTHER -> P

\* The function returns left_expr, the value returned last.
parse_expression(P, precedence) ==
    Leave(
    InfixLoop(
        ReturnIfNone(
        PrimaryExpression(
        Enter([kind |-> "parse_expression"], P))),
        precedence))

\* Lines 157-162: if self.peek_token_is(Equals) { two next_token;
\* value = self.parse_expression(None); }
VariableInitializer(P) ==
    IF Done(P) THEN P
    ELSE IF peek_token_is(P, TT("Equals"))
    THEN SetResult("value", parse_expression(next_token(next_token(P)), None))
    ELSE P

parse_variable_declaration(P) ==
    Leave(ReturnSome(
    Expect(TT("Semicolon"),
    VariableInitializer(
    SetIdentifier("name",
    Expect(IdentEmpty,
    Enter([kind |-> "VariableDeclaration", token |-> P.current_token,
           name |-> <<>>,
           type_name |-> TypeNameOf(P.current_token.token_type.tag),
           value |-> None],
          P)))))))

parse_const_variable_declaration(P) ==
    IF P.peek_token.token_type.tag \notin TypeKeywords
    THEN Yield(None, peek_error(P, TT("IntKeyword")))
    ELSE Leave(ReturnSome(
         Expect(TT("Semicolon"),
         SetResult("value",
         parse_expression(
             next_token(
             Expect(TT("Equals"),
             SetIdentifier("name",
             Expect(IdentEmpty,
             next_token(
             Enter([kind |-> "VariableDeclaration", token |-> P.current_token,
                    name |-> <<>>,
                    type_name |-> TypeNameOf(P.peek_token.token_type.tag),
                    value |-> None],
                   P)))))),
             None)))))

\* if !self.expect_peek(token_type) { return parameters; }
ExpectParameter(token_type, P) ==
    IF Done(P) THEN P
    ELSE IF peek_token_is(P, token_type) THEN expect_peek(P, token_type)
    ELSE ReturnLocal("parameters", expect_peek(P, token_type))

\* parameters.push((name, type_name)), line 312, type_name the identifier of
\* the current token.
PushParameter(P) ==
    IF Done(P) THEN P
    ELSE SetLocal("parameters",
                  Append(Frame(P).parameters,
                         <<Frame(P).name, CurrentIdentifier(P)>>),
                  P)

RECURSIVE ParametersLoop(_)
\* Lines 314-317 and the next turn of the loop.
ParametersLoopEnd(P) ==
    IF Done(P) THEN P
    ELSE IF ~peek_token_is(P, TT("Comma")) THEN P
    ELSE ParametersLoop(next_token(P))

\* The loop of parse_function_parameters, lines 291-318.
ParametersLoop(P) ==
    IF Done(P) THEN P
    ELSE ParametersLoopEnd(
         PushParameter(
         ExpectParameter(IdentEmpty,
         ExpectParameter(TT("Colon"),
         SetIdentifier("name",
         ExpectParameter(IdentEmpty, P))))))

parse_function_parameters(P) ==
    IF peek_token_is(P, TT("RightParen"))
    THEN Yield(<<>>, P)
    ELSE Leave(ReturnLocal("parameters",
         ParametersLoop(
         Enter([kind |-> "parse_function_parameters", parameters |-> <<>>,
                name |-> <<>>],
               P))))

\* Lines 252-263 and 1292-1303: the optional `=> <identifier>`.
ReturnType(P) ==
    IF Done(P) THEN P
    ELSE IF peek_token_is(P, TT("EqualsGreaterThan"))
    THEN SetSomeIdentifier("return_type", Expect(IdentEmpty, next_token(P)))
    ELSE P

\* Lines 233-273 of parse_function_declaration, which are lines 1273-1313
\* of parse_method_declaration: from the name to the closing brace.
FunctionSignatureAndBody(P) ==
    Expect(TT("RightBrace"),
    SetResult("body",
    parse_block_statement(
    Expect(TT("LeftBrace"),
    ReturnType(
    Expect(TT("RightParen"),
    SetResult("parameters",
    parse_function_parameters(
    Expect(TT("LeftParen"),
    SetIdentifier("name",
    Expect(IdentEmpty, P)))))))))))

parse_function_declaration(P) ==
    Leave(ReturnSome(
    FunctionSignatureAndBody(
    Enter([kind |-> "FunctionDeclaration", token |-> P.current_token,
           name |-> <<>>, parameters |-> <<>>, body |-> <<>>,
           return_type |-> None],
          P))))

\* Lines 327-330: if !self.peek_token_is(Semicolon) { self.next_token();
\* value = self.parse_expression(None); }
ReturnValue(P) ==
    IF Done(P) THEN P
    ELSE IF ~peek_token_is(P, TT("Semicolon"))
    THEN SetResult("value", parse_expression(next_token(P), None))
    ELSE P

parse_return_statement(P) ==
    Leave(ReturnSome(
    Expect(TT("Semicolon"),
    ReturnValue(
    Enter([kind |-> "ReturnStatement", token |-> P.current_token,
           value |-> None],
          P)))))

\* Statement::BlockStatement(statements)
BlockStatement(statements) == [kind |-> "BlockStatement", statements |-> statements]

\* name: Box::new(Statement::BlockStatement(self.parse_block_statement()))
SetBlock(name, P) == SetLocal(name, BlockStatement(P.r), P)

RECURSIVE BlockLoop(_)
\* The while loop of parse_block_statement, lines 1511-1518.
BlockLoop(P) ==
    IF \/ Done(P)
       \/ current_token_is(P, TT("RightBrace"))
       \/ current_token_is(P, TT("EOF"))
    THEN P
    ELSE BlockLoop(next_token(PushIfSome("statements", parse_statement(P))))

parse_block_statement(P) ==
    Leave(ReturnLocal("statements",
    BlockLoop(
    next_token(
    Enter([kind |-> "parse_block_statement", statements |-> <<>>], P)))))

\* name = Some(Box::new(<the value just returned>));
SetSomeResult(name, P) == SetLocal(name, Some(P.r), P)

\* Lines 746-753, after `else` is consumed.
ElseBranch(P) ==
    IF Done(P) THEN P
    ELSE IF peek_token_is(P, TT("IfKeyword"))
    THEN SetResult("else_branch", Unwrap(parse_if_statement(next_token(P))))
    ELSE SetSomeResult("else_branch",
                       parse_block_statement(Expect(TT("LeftBrace"), P)))

\* Lines 742-754.
Else(P) ==
    IF Done(P) THEN P
    ELSE IF peek_token_is(P, TT("ElseKeyword")) THEN ElseBranch(next_token(P))
    ELSE P

\* Lines 726-734, 781-789 and 804-812: `( <expression> )`, the expression
\* kept as condition.
Condition(P) ==
    Expect(TT("RightParen"),
    SetResult("condition",
    parse_expression(next_token(Expect(TT("LeftParen"), P)), None)))

parse_if_statement(P) ==
    Leave(ReturnMap("condition",
    Else(
    SetBlock("then_branch",
    parse_block_statement(
    Expect(TT("LeftBrace"),
    Condition(
    Enter([kind |-> "IfStatement", token |-> P.current_token,
           condition |-> None, then_branch |-> None, else_branch |-> None],
          P))))))))

parse_do_while_statement(P) ==
    Leave(ReturnMap("condition",
    Expect(TT("Semicolon"),
    Condition(
    Expect(TT("WhileKeyword"),
    Expect(TT("RightBrace"),
    SetBlock("body",
    parse_block_statement(
    Expect(TT("LeftBrace"),
    Enter([kind |-> "DoWhileStatement", token |-> P.current_token,
           body |-> None, condition |-> None],
          P))))))))))

parse_while_statement(P) ==
    Leave(ReturnMap("condition",
    SetBlock("body",
    parse_block_statement(
    Expect(TT("LeftBrace"),
    Condition(
    Enter([kind |-> "WhileStatement", token |-> P.current_token,
           condition |-> None, body |-> None],
          P)))))))

\* Lines 835-839.
ForInitializer(P) ==
    IF Done(P) THEN P
    ELSE IF ~peek_token_is(P, TT("Semicolon"))
    THEN SetResult("initializer", Unwrap(parse_statement(P)))
    ELSE P

\* Lines 843-847 and 851-855: the condition, up to `;`, and the increment,
\* up to `)`.
ForClause(name, stop, P) ==
    IF Done(P) THEN P
    ELSE IF ~peek_token_is(P, stop)
    THEN SetResult(name, Unwrap(parse_expression(P, None)))
    ELSE P

parse_for_statement(P) ==
    Leave(ReturnSome(
    SetBlock("body",
    parse_block_statement(
    Expect(TT("LeftBrace"),
    Expect(TT("RightParen"),
    ForClause("increment", TT("RightParen"),
    next_token(
    ForClause("condition", TT("Semicolon"),
    next_token(
    ForInitializer(
    next_token(
    Expect(TT("LeftParen"),
    Enter([kind |-> "ForStatement", token |-> P.current_token,
           initializer |-> None, condition |-> None, increment |-> None,
           body |-> None],
          P))))))))))))))

parse_for_of_statement(P) ==
    Leave(ReturnSome(
    SetBlock("body",
    parse_block_statement(
    Expect(TT("LeftBrace"),
    SetResult("iterator",
    ReturnIfNone(
    parse_expression(
        next_token(
        Expect(TT("OfKeyword"),
        SetIdentifier("element_variable",
        Expect(IdentEmpty,
        Enter([kind |-> "ForEachStatement", token |-> P.current_token,
               element_variable |-> <<>>, iterator |-> None, body |-> None],
              P))))),
        None))))))))

parse_break_statement(P) ==
    Yield([kind |-> "BreakStatement", token |-> P.current_token], P)

parse_continue_statement(P) ==
    Yield([kind |-> "ContinueStatement", token |-> P.current_token], P)

RECURSIVE SwitchBodyLoop(_)
\* The while loops of lines 956-964 and 974-982.
SwitchBodyLoop(P) ==
    IF \/ Done(P)
       \/ peek_token_is(P, TT("CaseKeyword"))
       \/ peek_token_is(P, TT("DefaultKeyword"))
       \/ peek_token_is(P, TT("RightBrace"))
    THEN P
    ELSE SwitchBodyLoop(next_token(PushIfSome("case_statements", parse_statement(P))))

\* cases.push((case_expr, statements)), line 965
PushCase(P) ==
    IF Done(P) THEN P
    ELSE SetLocal("cases",
                  Append(Frame(P).cases,
                         <<Frame(P).case_expr, Frame(P).case_statements>>),
                  P)

\* default = Some(statements), line 983
SetDefault(P) ==
    IF Done(P) THEN P ELSE SetLocal("default", Some(Frame(P).case_statements), P)

RECURSIVE SwitchLoop(_)
\* The while loop of parse_switch_statement, lines 944-993.
SwitchLoop(P) ==
    IF Done(P) \/ peek_token_is(P, TT("RightBrace")) THEN P
    ELSE CASE P.peek_token.token_type.tag = "CaseKeyword" ->
                SwitchLoop(
                PushCase(
                SwitchBodyLoop(
                SetLocal("case_statements", <<>>,
                Expect(TT("Colon"),
                SetResult("case_expr",
                Unwrap(
                parse_expression(next_token(next_token(P)), None))))))))
           [] P.peek_token.token_type.tag = "DefaultKeyword" ->
                SwitchLoop(
                SetDefault(
                SwitchBodyLoop(
                SetLocal("case_statements", <<>>,
                Expect(TT("Colon"),
                next_token(P))))))
           [] OTHER ->
                ReturnNone(PushError(P, <<"Unexpected token in switch statement",
                                          P.peek_token.token_type>>))

parse_switch_statement(P) ==
    Leave(ReturnSome(
    Expect(TT("RightBrace"),
    SwitchLoop(
    Expect(TT("LeftBrace"),
    Expect(TT("RightParen"),
    SetResult("expression",
    Unwrap(
    parse_expression(
        next_token(
        Expect(TT("LeftParen"),
        Enter([kind |-> "SwitchStatement", token |-> P.current_token,
               expression |-> None, cases |-> <<>>, default |-> None,
               case_expr |-> None, case_statements |-> <<>>],
              P))),
        None)))))))))

RECURSIVE IdentifierListLoop(_, _, _, _)
\* if !self.peek_token_is(Comma) { break; } self.next_token(); and the next
\* turn of the loop.
IdentifierListEnd(name, tag, untilBrace, P) ==
    IF Done(P) THEN P
    ELSE IF ~peek_token_is(P, TT("Comma")) THEN P
    ELSE IdentifierListLoop(name, tag, untilBrace, next_token(P))

\* The loops of lines 1023-1039, 1402-1417 and 1470-1485, which stop at a
\* closing brace, and of lines 1136-1149, which does not: the identifiers
\* separated by commas are pushed to the local name.
IdentifierListLoop(name, tag, untilBrace, P) ==
    IF Done(P) \/ (untilBrace /\ peek_token_is(P, TT("RightBrace"))) THEN P
    ELSE IdentifierListEnd(name, tag, untilBrace,
         PushIdentifier(name, tag,
         Expect(IdentEmpty, P)))

\* The function ends with the expression `variants` (line 1041): it expects
\* no closing brace and builds no EnumDeclaration.
parse_enum_declaration(P) ==
    Leave(ReturnLocal("variants",
    IdentifierListLoop("variants", "", TRUE,
    Expect(TT("LeftBrace"),
    SetIdentifier("name",
    Expect(IdentEmpty,
    Enter([kind |-> "parse_enum_declaration", token |-> P.current_token,
           name |-> <<>>, variants |-> <<>>],
          P)))))))

\* Lines 1046-1054; name.unwrap_or_else(|| "".to_string()) is the name the
\* frame starts with.
ObjectName(P) ==
    IF Done(P) THEN P
    ELSE IF peek_token_is(P, IdentEmpty) THEN SetIdentifier("name", next_token(P))
    ELSE P

RECURSIVE ObjectLoop(_)
\* Lines 1087-1090 and the next turn of the loop.
ObjectLoopEnd(P) ==
    IF Done(P) THEN P
    ELSE IF ~peek_token_is(P, TT("Comma")) THEN P
    ELSE ObjectLoop(next_token(P))

\* The while loop of parse_object_declaration, lines 1066-1091.
ObjectLoop(P) ==
    IF Done(P) \/ peek_token_is(P, TT("RightBrace")) THEN P
    ELSE ObjectLoopEnd(
         Pair("properties",
         ReturnIfNone(
         parse_expression(
             next_token(
             Expect(TT("Colon"),
             PushIdentifier("properties", "",
             Expect(IdentEmpty, P)))),
             None))))

parse_object_declaration(P) ==
    Leave(ReturnSome(
    Expect(TT("Semicolon"),
    Expect(TT("RightBrace"),
    ObjectLoop(
    Expect(TT("LeftBrace"),
    next_token(
    Expect(TT("Equals"),
    ObjectName(
    Enter([kind |-> "ObjectDeclaration", token |-> P.current_token,
           name |-> <<>>, properties |-> <<>>],
          P))))))))))

\* The Visibility returned.
parse_visibility(P) ==
    IF peek_token_is(P, TT("PublicKeyword")) THEN Yield("Public", next_token(P))
    ELSE IF peek_token_is(P, TT("PrivateKeyword"))
    THEN Yield("Private", next_token(P))
    ELSE Yield("Public", P)

\* Lines 1226-1234.
FieldType(P) ==
    IF Done(P) THEN P
    ELSE IF P.peek_token.token_type.tag = "Identifier"
    THEN SetSomeIdentifier("type_name", next_token(P))
    ELSE P

\* Lines 1245-1249.
FieldValue(P) ==
    IF Done(P) THEN P
    ELSE IF peek_token_is(P, TT("Equals"))
    THEN SetResult("value", parse_expression(next_token(P), None))
    ELSE P

parse_field_declaration(P, visibility, is_static) ==
    Leave(ReturnSome(
    Expect(TT("Semicolon"),
    FieldValue(
    SetIdentifier("name",
    Expect(IdentEmpty,
    FieldType(
    Enter([kind |-> "Field", token |-> P.current_token, name |-> <<>>,
           type_name |-> None, value |-> None, visibility |-> visibility,
           is_static |-> is_static],
          P))))))))

parse_method_declaration(P, visibility, is_static) ==
    Leave(ReturnSome(
    FunctionSignatureAndBody(
    next_token(
    Enter([kind |-> "Method", token |-> P.current_token, name |-> <<>>,
           parameters |-> <<>>, body |-> <<>>, return_type |-> None,
           visibility |-> visibility, is_static |-> is_static],
          P)))))

\* Lines 1193-1198.
IsStatic(P) ==
    IF Done(P) THEN P
    ELSE IF peek_token_is(P, TT("StaticKeyword"))
    THEN SetLocal("is_static", TRUE, next_token(P))
    ELSE P

\* Lines 1200-1204.
MethodOrField(P) ==
    IF Done(P) THEN P
    ELSE IF peek_token_is(P, TT("FunctionKeyword"))
    THEN parse_method_declaration(P, Frame(P).visibility, Frame(P).is_static)
    ELSE parse_field_declaration(P, Frame(P).visibility, Frame(P).is_static)

\* The function returns what the function it calls last returns.
parse_class_member(P) ==
    Leave(
    MethodOrField(
    IsStatic(
    SetResult("visibility",
    parse_visibility(
    Enter([kind |-> "parse_class_member", visibility |-> "Public",
           is_static |-> FALSE],
          P))))))

\* The closure of lines 1376-1390.
InterfaceMethod(P) ==
    IF Done(P) THEN P
    ELSE IF IsNone(P.r) THEN P
    ELSE Yield([kind |-> "Method", token |-> P.r.token, name |-> P.r.name,
                parameters |-> P.r.parameters, return_type |-> P.r.return_type],
               P)

parse_interface_member(P) ==
    InterfaceMethod(parse_method_declaration(P, "Public", FALSE))

RECURSIVE SkipMember(_)
\* The recovery loop of lines 1180-1184 and 1363-1367: it does not stop at
\* EOF.
SkipMember(P) ==
    IF \/ Done(P)
       \/ current_token_is(P, TT("Semicolon"))
       \/ current_token_is(P, TT("RightBrace"))
    THEN P
    ELSE SkipMember(next_token(P))

\* Lines 1176-1185 and 1359-1368.
PushMemberOrSkip(P) ==
    IF Done(P) THEN P
    ELSE IF IsNone(P.r) THEN SkipMember(P)
    ELSE Push("members", P)

RECURSIVE MembersLoop(_, _)
\* The end of a turn of the loop that began with the parser before.  A turn
\* that gives no member and takes no token is followed by the same turn,
\* without end: the model stops there.
MembersLoopEnd(interface, before, P) ==
    IF Done(P) THEN P
    ELSE IF IsNone(P.r) /\ P.lexer.tokens = before.lexer.tokens
    THEN Panic(P, "the loop of the members does not terminate")
    ELSE MembersLoop(interface, P)

\* The while loops of parse_class_members, lines 1174-1186, and of
\* parse_interface_members, lines 1357-1369.
MembersLoop(interface, P) ==
    IF Done(P) \/ peek_token_is(P, TT("RightBrace")) THEN P
    ELSE MembersLoopEnd(interface, P,
         PushMemberOrSkip(
         IF interface THEN parse_interface_member(P) ELSE parse_class_member(P)))

parse_class_members(P) ==
    Leave(ReturnLocal("members",
    MembersLoop(FALSE,
    Enter([kind |-> "parse_class_members", members |-> <<>>], P))))

parse_interface_members(P) ==
    Leave(ReturnLocal("members",
    MembersLoop(TRUE,
    Enter([kind |-> "parse_interface_members", members |-> <<>>], P))))

\* Lines 1119-1130.
Superclass(P) ==
    IF Done(P) THEN P
    ELSE IF peek_token_is(P, TT("ExtendsKeyword"))
    THEN SetSomeIdentifier("superclass", Expect(IdentEmpty, next_token(P)))
    ELSE P

\* Lines 1132-1150.
Interfaces(P) ==
    IF Done(P) THEN P
    ELSE IF peek_token_is(P, TT("ImplementsKeyword"))
    THEN IdentifierListLoop("interfaces", "", FALSE, next_token(P))
    ELSE P

parse_class_declaration(P) ==
    Leave(ReturnSome(
    Expect(TT("RightBrace"),
    SetResult("members",
    parse_class_members(
    Expect(TT("LeftBrace"),
    Interfaces(
    Superclass(
    SetIdentifier("name",
    Expect(IdentEmpty,
    Enter([kind |-> "ClassDeclaration", token |-> P.current_token,
           name |-> <<>>, superclass |-> None, interfaces |-> <<>>,
           members |-> <<>>],
          P)))))))))))

parse_interface_declaration(P) ==
    Leave(ReturnSome(
    Expect(TT("RightBrace"),
    SetResult("members",
    parse_interface_members(
    Expect(TT("LeftBrace"),
    SetIdentifier("name",
    Expect(IdentEmpty,
    Enter([kind |-> "InterfaceDeclaration", token |-> P.current_token,
           name |-> <<>>, members |-> <<>>],
          P)))))))))

\* Lines 1398-1433.
ImportSpecifiers(P) ==
    IF Done(P) THEN P
    ELSE IF peek_token_is(P, TT("LeftBrace"))
    THEN Expect(TT("RightBrace"),
         IdentifierListLoop("imports", "Named", TRUE, next_token(P)))
    ELSE IF peek_token_is(P, IdentEmpty)
    THEN PushIdentifier("imports", "Default", expect_peek(P, IdentEmpty))
    ELSE ReturnNone(peek_error(expect_peek(P, IdentEmpty), IdentEmpty))

\* Lines 1442-1445.
ImportPath(P) == SetLocal("path", P.current_token.token_type.val, P)

parse_import_declaration(P) ==
    Leave(ReturnSome(
    Expect(TT("Semicolon"),
    ImportPath(
    Expect(StringEmpty,
    Expect(TT("FromKeyword"),
    ImportSpecifiers(
    Enter([kind |-> "ImportDeclaration", token |-> P.current_token,
           imports |-> <<>>, path |-> <<>>],
          P))))))))

\* Lines 1462-1494.
ExportSpecifiers(P) ==
    IF Done(P) THEN P
    ELSE IF peek_token_is(P, TT("DefaultKeyword"))
    THEN SetLocal("specifiers", <<<<"Default">>>>, next_token(P))
    ELSE IF peek_token_is(P, TT("LeftBrace"))
    THEN Expect(TT("RightBrace"),
         IdentifierListLoop("specifiers", "Named", TRUE, next_token(P)))
    ELSE ReturnNone(peek_error(P, TT("DefaultKeyword")))

parse_export_declaration(P) ==
    Leave(ReturnSome(
    Expect(TT("Semicolon"),
    ExportSpecifiers(
    Enter([kind |-> "ExportDeclaration", token |-> P.current_token,
           specifiers |-> <<>>],
          P)))))

\* Lines 115-118: if !<the expect_peek just made> { skip_to_next_statement }
SkipUnlessOk(P) == IF Done(P) \/ P.ok THEN P ELSE skip_to_next_statement(P)

\* The match on expr of parse_statement, lines 113-125.
ExpressionStatement(P) ==
    IF Done(P) THEN P
    ELSE IF IsNone(P.r) THEN skip_to_next_statement(P)
    ELSE Yield([kind |-> "Expression", expression |-> P.r],
               SkipUnlessOk(expect_peek(P, TT("Semicolon"))))

parse_statement(P) ==
    LET t == P.current_token.token_type.tag IN
    IF Done(P) THEN P ELSE
    CASE t \in TypeKeywords -> parse_variable_declaration(P)
      [] t = "ConstKeyword" -> parse_const_variable_declaration(P)
      [] t = "FunctionKeyword" -> parse_function_declaration(P)
      [] t = "ReturnKeyword" -> parse_return_statement(P)
      [] t = "IfKeyword" -> parse_if_statement(P)
      [] t = "DoKeyword" -> parse_do_while_statement(P)
      [] t = "WhileKeyword" -> parse_while_statement(P)
      [] t = "ForKeyword" ->
            IF /\ peek_token_is(P, IdentEmpty)
               /\ Len(P.lexer.tokens) >= 2
               /\ P.lexer.tokens[2].token_type.tag = "OfKeyword"
            THEN parse_for_of_statement(P)
            ELSE parse_for_statement(P)
      [] t = "BreakKeyword" -> parse_break_statement(P)
      [] t = "ContinueKeyword" -> parse_continue_statement(P)
      [] t = "EnumKeyword" -> parse_enum_declaration(P)
      [] t = "ObjectKeyword" -> parse_object_declaration(P)
      [] t = "ClassKeyword" -> parse_class_declaration(P)
      [] t = "InterfaceKeyword" -> parse_interface_declaration(P)
      [] t = "ImportKeyword" -> parse_import_declaration(P)
      [] t = "ExportKeyword" -> parse_export_declaration(P)
      [] t = "SwitchKeyword" -> parse_switch_statement(P)
      [] OTHER -> ExpressionStatement(parse_expression(P, None))

(***************************************************************************)
(* The inputs: every source of at most MaxLen characters over Alphabet,    *)
(* and the programs of Programs.                                           *)
(***************************************************************************)
Alphabet ==
    {"a", "1", ".", QUOTE, BSL, "/", "*", "&", " ", NL, "@", ";", EAcute}

ShortSources == UNION {[1..n -> Alphabet] : n \in 0..MaxLen}

\* `int x = 5;`, after the newline every test input begins with.
VariableDeclarationX ==
    <<NL, "i", "n", "t", " ", "x", " ", "=", " ", "5", ";">>

\* `int ab = 5;`: the same declaration with another name.
VariableDeclarationAb ==
    <<NL, "i", "n", "t", " ", "a", "b", " ", "=", " ", "5", ";">>

\* `int x;`: a declaration with no initializer.
VariableDeclarationNoValue ==
    <<NL, "i", "n", "t", " ", "x", ";">>

\* The input of test_invalid_syntax (parser_tests.rs, lines 187-190).
test_invalid_syntax_input ==
    <<NL, "i", "n", "t", " ", "x", " ", "=", " ", "5", NL, "/", "/", " ",
      "M", "i", "s", "s", "i", "n", "g", " ", "s", "e", "m", "i", "c", "o",
      "l", "o", "n", NL>>

\* The input of test_parse_switch_statement (lines 8-19), indentation dropped.
test_parse_switch_statement_input ==
    <<NL, "s", "w", "i", "t", "c", "h", "(", "x", ")", " ", "{", NL, "c",
      "a", "s", "e", " ", "1", ":", NL, "p", "r", "i", "n", "t", "(", QUOTE,
      "o", "n", "e", QUOTE, ")", ";", NL, "b", "r", "e", "a", "k", ";", NL,
      "c", "a", "s", "e", " ", "2", ":", NL, "p", "r", "i", "n", "t", "(",
      QUOTE, "t", "w", "o", QUOTE, ")", ";", NL, "b", "r", "e", "a", "k",
      ";", NL, "d", "e", "f", "a", "u", "l", "t", ":", NL, "p", "r", "i",
      "n", "t", "(", QUOTE, "o", "t", "h", "e", "r", QUOTE, ")", ";", NL,
      "}", NL>>

\* The input of test_parse_class_declaration (lines 265-291), indentation dropped.
test_parse_class_declaration_input ==
    <<NL, "c", "l", "a", "s", "s", " ", "H", "u", "m", "a", "n", " ", "{",
      NL, "i", "n", "t", " ", "a", "g", "e", " ", "=", " ", "1", "4", ";",
      NL, "p", "u", "b", "l", "i", "c", " ", "w", "e", "i", "g", "t", " ",
      "=", " ", "6", "6", ";", NL, "p", "r", "i", "v", "a", "t", "e", " ",
      "s", "t", "r", "i", "n", "g", " ", "f", "i", "r", "s", "t", "n", "a",
      "m", "e", " ", "=", " ", QUOTE, "S", "a", "m", "a", "n", "t", "h", "a",
      QUOTE, ";", NL, NL, "p", "r", "i", "v", "a", "t", "e", ":", NL, "s",
      "t", "r", "i", "n", "g", " ", "l", "a", "s", "t", "n", "a", "m", "e",
      " ", "=", " ", QUOTE, "M", "u", "s", "t", "e", "r", "m", "a", "n", "n",
      QUOTE, ";", NL, "b", "o", "o", "l", " ", "r", "u", "n", "n", "i", "n",
      "g", " ", "=", " ", "f", "a", "l", "s", "e", ";", NL, NL, "p", "u",
      "b", "l", "i", "c", ":", NL, "i", "n", "t", " ", "h", "e", "i", "g",
      "h", "t", " ", "=", " ", "1", "6", "6", ";", NL, "v", "o", "i", "d",
      " ", "r", "u", "n", " ", "=", " ", "(", "f", "l", "o", "a", "t", " ",
      "s", "p", "e", "e", "d", ")", " ", "=", ">", " ", "{", NL, "r", "u",
      "n", "n", "i", "n", "g", " ", "=", " ", "t", "r", "u", "e", ";", NL,
      "}", NL, NL, "c", "o", "n", "s", "t", "r", "u", "c", "t", "o", "r",
      " ", "=", " ", "(", "s", "t", "r", "i", "n", "g", " ", "f", "i", "r",
      "s", "t", "n", "a", "m", "e", ",", " ", "s", "t", "r", "i", "n", "g",
      " ", "l", "a", "s", "t", "n", "a", "m", "e", ")", " ", "=", ">", " ",
      "{", NL, "t", "h", "i", "s", ".", "f", "i", "r", "s", "t", "n", "a",
      "m", "e", " ", "=", " ", "f", "i", "r", "s", "t", "n", "a", "m", "e",
      ";", NL, "t", "h", "i", "s", ".", "l", "a", "s", "t", "n", "a", "m",
      "e", " ", "=", " ", "l", "a", "s", "t", "n", "a", "m", "e", ";", NL,
      "}", NL, NL, "s", "t", "a", "t", "i", "c", ":", NL, "H", "u", "m", "a",
      "n", " ", "c", "r", "e", "a", "t", "e", "H", "u", "m", "a", "n", " ",
      "=", " ", "(", "s", "t", "r", "i", "n", "g", " ", "f", "i", "r", "s",
      "t", "n", "a", "m", "e", ",", " ", "s", "t", "r", "i", "n", "g", " ",
      "l", "a", "s", "t", "n", "a", "m", "e", ",", " ", "i", "n", "t", " ",
      "a", "g", "e", ")", " ", "=", ">", " ", "{", NL, "H", "u", "m", "a",
      "n", " ", "n", "e", "w", "H", "u", "m", "a", "n", " ", "=", " ", "n",
      "e", "w", " ", "H", "u", "m", "a", "n", "(", "f", "i", "r", "s", "t",
      "n", "a", "m", "e", ",", " ", "l", "a", "s", "t", "n", "a", "m", "e",
      ")", ";", NL, "n", "e", "w", "H", "u", "m", "a", "n", ".", "a", "g",
      "e", " ", "=", " ", "a", "g", "e", ";", NL, "r", "e", "t", "u", "r",
      "n", " ", "n", "e", "w", "H", "u", "m", "a", "n", ";", NL, "}", NL,
      "}", NL>>

\* `dict x = { a: 1, b: 2 };`: a declaration of a dict with two entries.
DictDeclaration ==
    <<NL, "d", "i", "c", "t", " ", "x", " ", "=", " ", "{", " ", "a", ":",
      " ", "1", ",", " ", "b", ":", " ", "2", " ", "}", ";">>

\* `x = { a: 1, b: 2 };`: the same dict literal, assigned.
DictExpression ==
    <<NL, "x", " ", "=", " ", "{", " ", "a", ":", " ", "1", ",", " ", "b",
      ":", " ", "2", " ", "}", ";">>
\* The input of test_parse_for_of_statement (lines 48-52), indentation dropped.
test_parse_for_of_statement_input ==
    <<NL, "f", "o", "r", "(", "e", "l", "e", "m", "e", "n", "t", " ", "o",
      "f", " ", "a", "r", "r", "a", "y", ")", " ", "{", NL, "p", "r", "i",
      "n", "t", "(", "e", "l", "e", "m", "e", "n", "t", ")", ";", NL, "}",
      NL>>
\* Sources of the form integer, `+`, integer, with the values of the two
\* integers.
IntegerSums ==
    {<<<<"1", "+", "1">>, 1, 1>>,
     <<<<"1", "2", "+", "3">>, 12, 3>>,
     <<<<"7", "+", "4", "5">>, 7, 45>>}

\* Sources that hold one literal of the form digits `.` digits: at the start
\* of the source (`1.5` itself), after a blank and between two semicolons.
FloatSources ==
    {<<"1", ".", "5">>, <<" ", "1", ".", "5">>, <<";", "1", ".", "5", ";">>}

LexerSources == {s[1] : s \in IntegerSums} \cup FloatSources

\* The input of test_parse_enum_declaration (lines 203-209), indentation dropped.
test_parse_enum_declaration_input ==
    <<NL, "e", "n", "u", "m", " ", "A", "C", "T", "I", "O", "N", " ", "{",
      NL, "R", "U", "N", ",", NL, "W", "A", "L", "K", ",", NL, "S", "I", "T",
      NL, "}", NL>>
\* The binary operators as they are written.
BinaryOperatorLexemes ==
    {<<"|", "|">>, <<"&", "&">>, <<"=", "=">>, <<"!", "=">>, <<">">>, <<"<">>,
     <<">", "=">>, <<"<", "=">>, <<"+">>, <<"-">>, <<"*">>, <<"/">>, <<"%">>}

\* The expression statement `a <op1> b <op2> c;`.
BinaryExpression(op1, op2) ==
    <<NL, "a", " ">> \o op1 \o <<" ", "b", " ">> \o op2 \o <<" ", "c", ";">>

BinaryExpressions ==
    {BinaryExpression(op1, op2) : op1, op2 \in BinaryOperatorLexemes}

\* `a b;`: an expression statement with no semicolon after `a`.
ExpressionWithoutSemicolon ==
    <<NL, "a", " ", "b", ";">>

\* The characters that start an operator of one or two characters, and the
\* characters tried after them.
OperatorFirsts == {"+", "-", "*", "/", "%", "=", "!", ">", "<"}

OperatorSeconds == {"+", "-", "=", ">", ";"}

\* A space (the character Lexer::new drops), then the two characters.
OperatorSource(c, d) == <<" ", c, d>>

OperatorSources == {OperatorSource(c, d) : c \in OperatorFirsts, d \in OperatorSeconds}

\* A space (the character Lexer::new drops), then the character c and the
\* character d: the pairs `&&` and `||`, and `&` and `|` alone before `;`.
LogicalSource(c, d) == <<" ", c, d>>

LogicalSources == {LogicalSource(c, d) : c \in {"&", "|"}, d \in {"&", "|", ";"}}

\* Characters that start no token, comment or whitespace.
UnexpectedCharacters == {"@", "#", Section}

\* A space (the character Lexer::new drops), the character c, and `a`.
UnexpectedSource(c) == Encode(<<" ", c, "a">>)

UnexpectedSources == {UnexpectedSource(c) : c \in UnexpectedCharacters}

\* A block comment with a newline inside, then `a`.
NewlineInComment ==
    <<" ", "/", "*", NL, "*", "/", "a">>

\* A string literal with a newline inside, then `a`.
NewlineInString ==
    <<" ", QUOTE, NL, QUOTE, "a">>

\* A newline as the first character of the source, then `a`.
NewlineFirst ==
    <<NL, "a">>

LineSources == {NewlineInComment, NewlineInString, NewlineFirst}

\* The assignment operators as they are written.
AssignmentOperatorLexemes ==
    {<<"=">>, <<"+", "=">>, <<"-", "=">>, <<"*", "=">>, <<"/", "=">>, <<"%", "=">>}

\* The expression statements `a <op1> b <op2> c;` with assignment operators.
AssignmentChains ==
    {BinaryExpression(op1, op2) : op1, op2 \in AssignmentOperatorLexemes}

\* The expression statements `-a + b;` and `!a == b;`, and with the other
\* binary operators.
PrefixOperatorLexemes == {<<"-">>, <<"!">>}

PrefixExpression(prefix, op) ==
    <<NL>> \o prefix \o <<"a", " ">> \o op \o <<" ", "b", ";">>

PrefixExpressions ==
    {PrefixExpression(prefix, op) :
        prefix \in PrefixOperatorLexemes, op \in BinaryOperatorLexemes}

\* `a.b(c)[d];`: member access, call and index in one expression.
AccessChain ==
    <<NL, "a", ".", "b", "(", "c", ")", "[", "d", "]", ";">>

\* `x.name;`: one member access.
MemberAccessXName ==
    <<NL, "x", ".", "n", "a", "m", "e", ";">>

\* `a(c)[d];`: a call and an index with no member access.
CallThenIndex ==
    <<NL, "a", "(", "c", ")", "[", "d", "]", ";">>

\* A class whose first member is malformed and whose second is a field.
ClassWithMalformedMember ==
    <<NL, "c", "l", "a", "s", "s", " ", "A", " ", "{", " ", "i", "n", "t",
      " ", "=", " ", ";", " ", "i", "n", "t", " ", "x", ";", " ", "}">>

\* An interface whose first member is malformed and whose second is a method.
InterfaceWithMalformedMember ==
    <<NL, "i", "n", "t", "e", "r", "f", "a", "c", "e", " ", "I", " ", "{",
      " ", "i", "n", "t", " ", "=", " ", ";", " ", "f", "u", "n", "c", "t",
      "i", "o", "n", " ", "f", "(", ")", " ", "{", " ", "}", " ", "}">>

\* `a(*);`: a call whose argument is no expression.
MalformedCallArgument ==
    <<NL, "a", "(", "*", ")", ";">>

\* `switch (*) { }`: a switch whose subject is no expression.
MalformedSwitchSubject ==
    <<NL, "s", "w", "i", "t", "c", "h", " ", "(", "*", ")", " ", "{", " ",
      "}">>

\* `switch (a) { case *: }`: a case whose expression is no expression.
MalformedCaseExpression ==
    <<NL, "s", "w", "i", "t", "c", "h", " ", "(", "a", ")", " ", "{", " ",
      "c", "a", "s", "e", " ", "*", ":", " ", "}">>

\* `for (i; *; ) { }`: a for statement whose condition is no expression.
MalformedForCondition ==
    <<NL, "f", "o", "r", " ", "(", "i", ";", " ", "*", ";", " ", ")", " ",
      "{", " ", "}">>

\* `for (i; ; *) { }`: a for statement whose increment is no expression.
MalformedForIncrement ==
    <<NL, "f", "o", "r", " ", "(", "i", ";", " ", ";", " ", "*", ")", " ",
      "{", " ", "}">>

MalformedNestedExpressions ==
    {MalformedCallArgument, MalformedSwitchSubject, MalformedCaseExpression,
     MalformedForCondition, MalformedForIncrement}

\* What follows the first word of a statement: nothing, a name, a
\* parenthesized name, a block, a name and `=`, each before `;`.
StatementTails ==
    {<<";">>, <<" ", "a", ";">>, <<" ", "(", "a", ")", ";">>,
     <<" ", "{", "}", ";">>, <<" ", "a", " ", "=", ";">>}

\* One statement per keyword and per tail, after the newline every test
\* input begins with: most of them are malformed.
StatementStarts ==
    {<<NL>> \o KeywordTable[i][1] \o tail : i \in DOMAIN KeywordTable, tail \in StatementTails}

\* `a;`: an identifier as a statement.
IdentifierStatement ==
    <<NL, "a", ";">>

\* `1;`: a literal as a statement.
LiteralStatement ==
    <<NL, "1", ";">>

\* `(a);`: a parenthesized expression as a statement.
ParenthesizedStatement ==
    <<NL, "(", "a", ")", ";">>

\* `this;`: the keyword this as a statement.
ThisStatement ==
    <<NL, "t", "h", "i", "s", ";">>

\* `this.x;`: a member access on this.
ThisMember ==
    <<NL, "t", "h", "i", "s", ".", "x", ";">>

PrimaryStatements ==
    {IdentifierStatement, LiteralStatement, ParenthesizedStatement, ThisStatement,
     ThisMember}

Programs ==
    {VariableDeclarationX, VariableDeclarationAb, VariableDeclarationNoValue,
     test_invalid_syntax_input, test_parse_switch_statement_input,
     test_parse_class_declaration_input,
     DictDeclaration, DictExpression, test_parse_for_of_statement_input,
     test_parse_enum_declaration_input, ExpressionWithoutSemicolon,
     AccessChain, MemberAccessXName, CallThenIndex,
     ClassWithMalformedMember, InterfaceWithMalformedMember}
    \cup MalformedNestedExpressions \cup StatementStarts \cup PrimaryStatements

\* The programs are ASCII: their bytes are their characters.
Sources == {Encode(cs) : cs \in ShortSources} \cup Programs \cup LexerSources
           \cup BinaryExpressions \cup OperatorSources
           \cup LogicalSources \cup UnexpectedSources
           \cup LineSources \cup AssignmentChains \cup PrefixExpressions

EOF00 == Token(TT("EOF"), 0, 0)

\* The struct literal of Parser::new (lines 17-22) around a lexer.
ParserLiteral(lx) ==
    [lexer |-> lx,
     current_token |-> EOF00,
     peek_token |-> EOF00,
     errors |-> <<>>,
     frames |-> <<>>,
     returned |-> FALSE,
     r |-> None,
     ok |-> TRUE,
     panic |-> NoPanic]

\* The tests' sequence of calls: Lexer::new(input), lexer.tokenize(),
\* Parser::new(lexer), parser.parse_program().  stmt is the
\* result of the last parse_statement, program the vector parse_program
\* builds, pc the place in the sequence.
Init ==
    /\ \E src \in Sources : lexer = LexerLiteral(src)
    /\ parser = ParserLiteral(LexerLiteral(<<>>))
    /\ stmt = None
    /\ program = <<>>
    /\ pc = "Lexer::new"

\* Lexer::new, line 26: the consume() that "initializes" current_char.
LexerNew ==
    /\ pc = "Lexer::new"
    /\ lexer' = consume(lexer)
    /\ pc' = IF lexer'.panic # NoPanic THEN "panic" ELSE "tokenize"
    /\ UNCHANGED <<parser, stmt, program>>

\* One evaluation of the while-let of tokenize: the match on the current
\* character, or, at the end of the source, the EOF token and the return.
TokenizeStep ==
    /\ pc = "tokenize"
    /\ Len(lexer.errors) < MaxErrors
    /\ lexer' = IF lexer.current_char # NoChar THEN TokenizeArm(lexer)
                ELSE add_token(lexer, TT("EOF"))
    /\ pc' = IF lexer'.panic # NoPanic THEN "panic"
             ELSE IF lexer.current_char # NoChar THEN "tokenize"
             ELSE "tokenized"
    /\ UNCHANGED <<parser, stmt, program>>

\* Parser::new(lexer), lines 16-26: the lexer moves into the parser, and
\* next_token runs twice.  The variable lexer keeps what tokenize returned.
ParserNew ==
    /\ pc = "tokenized"
    /\ parser' = next_token(next_token(ParserLiteral(lexer)))
    /\ pc' = IF parser'.panic # NoPanic THEN "panic" ELSE "parse_program"
    /\ UNCHANGED <<lexer, stmt, program>>

\* parse_program, lines 68-69: the test of the while loop and, when the
\* current token is not EOF, the call of parse_statement.
ParseStatement ==
    /\ pc = "parse_program"
    /\ IF current_token_is(parser, TT("EOF"))
       THEN /\ pc' = "parsed"
            /\ UNCHANGED <<parser, stmt>>
       ELSE /\ parser' = parse_statement(parser)
            /\ stmt' = parser'.r
            /\ pc' = IF parser'.panic # NoPanic THEN "panic" ELSE "statement"
    /\ UNCHANGED <<lexer, program>>

\* parse_program, lines 69-73: the push of the statement parsed, if any, and
\* the next_token that ends the iteration.
ParseAdvance ==
    /\ pc = "statement"
    /\ program' = IF IsNone(stmt) THEN program ELSE Append(program, stmt)
    /\ parser' = next_token(parser)
    /\ pc' = IF parser'.panic # NoPanic THEN "panic" ELSE "parse_program"
    /\ UNCHANGED <<lexer, stmt>>

Next == LexerNew \/ TokenizeStep \/ ParserNew \/ ParseStatement \/ ParseAdvance

Spec == Init /\ [][Next]_vars

\* The calls follow one another with no wait: a step that can be taken is
\* taken.
FairSpec == Spec /\ WF_vars(Next)

(***************************************************************************)
(* Properties of the lexer.                                                *)
(***************************************************************************)

IsEOF(t) == t.token_type.tag = "EOF"

LastIsEOF(tokens) == tokens # <<>> /\ IsEOF(tokens[Len(tokens)])

\* C1: for every source string, the empty string included, Lexer::new
\* followed by tokenize terminates, raises no unrecoverable failure (no
\* out-of-range slice of the source) and leaves a token list whose last
\* element is EOF.  Termination is stated by the variant of the loop: every
\* iteration at a character moves current_position forward.
C1_TokenizeTotal ==
    /\ lexer.panic = NoPanic
    /\ (pc = "tokenize" /\ lexer.current_char # NoChar)
          => TokenizeArm(lexer).current_position > lexer.current_position
    /\ pc = "tokenized" => LastIsEOF(lexer.tokens)

\* C3: after tokenize returns, the token list contains exactly one EOF token
\* and it is the last element, whatever tokens and lexical errors were
\* produced before it.
C3_ExactlyOneEOF ==
    pc = "tokenized" =>
        /\ LastIsEOF(lexer.tokens)
        /\ Cardinality({i \in 1..Len(lexer.tokens) : IsEOF(lexer.tokens[i])}) = 1

\* tokenize has returned a list with tokens before the EOF, and has recorded
\* lexical errors.
C3_TokensAndErrorsBeforeEOF ==
    /\ pc = "tokenized"
    /\ Len(lexer.tokens) >= 3
    /\ lexer.errors # <<>>

\* The characters that are each a unit of their own wherever they stand: a
\* one-character token, a skipped blank, an unexpected character.
Units == {";", " ", NL, "@"}

\* C4: every character of the source, from the first to the last, is
\* accounted for by exactly one of a token built from it, skipped whitespace
\* or comment, or a recorded lexical error.  Stated for the sources made of
\* characters that are each a unit of their own: the tokens before EOF, the
\* errors and the blanks are as many as the characters.
C4_EveryCharacterAccounted ==
    (pc = "tokenized" /\ \A i \in 1..Len(lexer.source) : lexer.source[i] \in Units)
        => (Len(lexer.tokens) - 1) + Len(lexer.errors)
             + Cardinality({i \in 1..Len(lexer.source) : lexer.source[i] \in {" ", NL}})
           = Len(lexer.source)

\* (line, column) of a is not lexicographically later than that of b.
NotLater(a, b) == a.line < b.line \/ (a.line = b.line /\ a.column <= b.column)

\* C5: in the token list returned by tokenize, the (line, column) of each
\* token is not lexicographically earlier than that of the token before it,
\* across newlines, comments, multi-character operators, string literals and
\* the final EOF.
C5_PositionsMonotone ==
    pc = "tokenized" =>
        \A i \in 1..(Len(lexer.tokens) - 1) :
            NotLater(lexer.tokens[i], lexer.tokens[i + 1])

\* tokenize has returned a list with a string literal in which a token stands
\* on a later line and at a smaller column than the token before it.
C5_TokenOnLaterLine ==
    /\ pc = "tokenized"
    /\ \E i \in 1..Len(lexer.tokens) : lexer.tokens[i].token_type.tag = "String"
    /\ \E i \in 1..(Len(lexer.tokens) - 1) :
          /\ lexer.tokens[i + 1].line > lexer.tokens[i].line
          /\ lexer.tokens[i + 1].column < lexer.tokens[i].column

(***************************************************************************)
(* Properties of the parser.                                               *)
(***************************************************************************)

\* C2: for every token list produced by one tokenize call, Parser::new
\* followed by parse_program runs to completion and returns a program; in
\* particular next_token is never executed when the remaining token list is
\* empty.  Every way a parse stops short of its return is a panic of the
\* parser.
C2_ParseRunsToCompletion == parser.panic = NoPanic

VariableDeclarations ==
    {VariableDeclarationX, VariableDeclarationAb, VariableDeclarationNoValue}

\* The identifier written in a source `<type-keyword> <ident> ...`.
DeclaredName(src) == SelectSeq(SubSeq(src, 6, Len(src)), LAMBDA c : c \in Letter)

\* C6: parsing the tokens of `int x = 5;` yields a program of exactly one
\* statement, a VariableDeclaration with name "x", type_name Some("int") and
\* value Literal Int(5), and an empty syntax-error list; the declaration is
\* accepted for any identifier name, with or without an initializer.
C6_VariableDeclarationAccepted ==
    lexer.source \in VariableDeclarations =>
        /\ parser.errors = <<>>
        /\ parser.panic = NoPanic
        /\ pc = "statement" =>
              /\ program = <<>>
              /\ stmt.kind = "VariableDeclaration"
              /\ stmt.name = DeclaredName(lexer.source)
              /\ stmt.type_name = Some(<<"i", "n", "t">>)
              /\ lexer.source = VariableDeclarationX =>
                    /\ stmt.value.kind = "Literal"
                    /\ stmt.value.value = [type |-> "Int", value |-> 5]
        /\ pc = "parsed" => Len(program) = 1

\* C7: parsing a variable declaration whose semicolon is missing before the
\* end of input (`int x = 5`, then EOF) returns a program of exactly one
\* statement and a non-empty syntax-error list, and raises no unrecoverable
\* failure.
C7_MissingSemicolonRecovered ==
    lexer.source = test_invalid_syntax_input =>
        /\ parser.panic = NoPanic
        /\ pc = "parsed" => Len(program) = 1 /\ parser.errors # <<>>

SynchronizingTokens == {"Semicolon", "RightBrace", "EOF"}

\* C8: whenever parsing of a statement fails (parse_statement returns no
\* statement), for any statement form, the parser has recorded a diagnostic
\* and has advanced the cursor to a `;`, a `}` or the EOF token before the
\* next statement is parsed.
C8_FailedStatementSynchronizes ==
    [][(pc = "parse_program" /\ pc' = "statement" /\ IsNone(stmt'))
          => /\ Len(parser'.errors) > Len(parser.errors)
             /\ parser'.current_token.token_type.tag \in SynchronizingTokens]_vars

\* C9: parsing `switch ( e ) { case c1: ... case c2: ... default: ... }`
\* yields exactly one SwitchStatement whose cases list has one entry per case
\* clause, each holding the statements written in its body (a call statement
\* and a break: length 2), and whose default holds the statements of the
\* default body (one call statement: length 1).
C9_SwitchStatementParsed ==
    lexer.source = test_parse_switch_statement_input =>
        /\ parser.panic = NoPanic
        /\ pc = "statement" =>
              /\ program = <<>>
              /\ stmt.kind = "SwitchStatement"
              /\ Len(stmt.cases) = 2
              /\ \A i \in 1..Len(stmt.cases) : Len(stmt.cases[i][2]) = 2
              /\ stmt.default.kind = "Some"
              /\ Len(stmt.default.v) = 1
        /\ pc = "parsed" => Len(program) = 1

\* C10: parsing a class declaration yields one ClassDeclaration whose members
\* list has one entry per field and per method written in the class body (7
\* for the class of the test); the visibility-block headers produce no
\* member.
C10_ClassDeclarationParsed ==
    lexer.source = test_parse_class_declaration_input =>
        /\ parser.panic = NoPanic
        /\ pc = "statement" =>
              /\ program = <<>>
              /\ stmt.kind = "ClassDeclaration"
              /\ Len(stmt.members) = 7
        /\ pc = "parsed" => Len(program) = 1

\* C11: when an expression starts with `{` and the next token is any
\* identifier or any string literal, the parser builds a DictLiteral with one
\* (key, value) pair per `key: value` entry; `dict x = { a: 1, b: 2 };` yields
\* one VariableDeclaration named x whose value is a DictLiteral with 2 pairs.
C11_DictLiteralParsed ==
    /\ lexer.source \in {DictDeclaration, DictExpression} =>
          /\ parser.panic = NoPanic
          /\ pc = "parsed" => Len(program) = 1
    /\ (lexer.source = DictDeclaration /\ pc = "statement") =>
          /\ program = <<>>
          /\ stmt.kind = "VariableDeclaration"
          /\ stmt.name = <<"x">>
          /\ stmt.value.kind = "DictLiteral"
          /\ Len(stmt.value.pairs) = 2
    /\ (lexer.source = DictExpression /\ pc = "statement") =>
          /\ program = <<>>
          /\ stmt.kind = "Expression"
          /\ stmt.expression.kind = "Assignment"
          /\ stmt.expression.right.kind = "DictLiteral"
          /\ Len(stmt.expression.right.pairs) = 2

\* C12: parsing `for ( <ident> of <expr> ) { <stmts> }` is dispatched to the
\* for-each parser and yields exactly one ForEachStatement whose
\* element_variable is the identifier, whose iterator is the expression and
\* whose body holds the body statements.
C12_ForOfParsed ==
    lexer.source = test_parse_for_of_statement_input =>
        /\ parser.panic = NoPanic
        /\ pc = "statement" =>
              /\ program = <<>>
              /\ stmt.kind = "ForEachStatement"
              /\ stmt.element_variable = <<"e", "l", "e", "m", "e", "n", "t">>
              /\ stmt.iterator.kind = "Identifier"
              /\ stmt.iterator.name = <<"a", "r", "r", "a", "y">>
              /\ Len(stmt.body.statements) = 1
        /\ pc = "parsed" => Len(program) = 1

\* The token types of a token list, in order.
TokenTypes(tokens) == [i \in 1..Len(tokens) |-> tokens[i].token_type]

\* C13: tokenizing the source `1+1` yields exactly the token list
\* [Int(1), Plus, Int(1), EOF] and no lexical error; more generally a source
\* of the form integer, `+`, integer yields Int, Plus, Int, EOF.
C13_IntegerSumTokens ==
    \A s \in IntegerSums :
        (lexer.source = s[1] /\ pc \notin {"Lexer::new", "tokenize"}) =>
            /\ lexer.panic = NoPanic
            /\ lexer.errors = <<>>
            /\ TokenTypes(lexer.tokens)
                 = <<TTV("Int", s[2]), TT("Plus"), TTV("Int", s[3]), TT("EOF")>>

TokensTagged(tokens, tag) == {i \in 1..Len(tokens) : tokens[i].token_type.tag = tag}

\* C14: a numeric literal of the form digits `.` digits, at any position of
\* the source (the source `1.5` included), is lexed as exactly one Float token
\* and never as an Int token followed by Dot and Int.
C14_FloatIsOneToken ==
    (lexer.source \in FloatSources /\ pc \notin {"Lexer::new", "tokenize"}) =>
        /\ lexer.panic = NoPanic
        /\ Cardinality(TokensTagged(lexer.tokens, "Float")) = 1
        /\ TokensTagged(lexer.tokens, "Int") = {}
        /\ TokensTagged(lexer.tokens, "Dot") = {}

\* C15: parsing `enum <ident> { <ident> (, <ident>)* }` yields exactly one
\* EnumDeclaration statement carrying the enum name and one variant per
\* listed identifier in source order (RUN, WALK, SIT: 3 variants in that
\* order), and the closing `}` is consumed as part of the declaration.
C15_EnumDeclarationParsed ==
    lexer.source = test_parse_enum_declaration_input =>
        /\ parser.panic = NoPanic
        /\ pc = "statement" =>
              /\ program = <<>>
              /\ stmt.kind = "EnumDeclaration"
              /\ stmt.name = <<"A", "C", "T", "I", "O", "N">>
              /\ stmt.variants = << <<"R", "U", "N">>, <<"W", "A", "L", "K">>,
                                    <<"S", "I", "T">> >>
              /\ parser.current_token.token_type.tag = "RightBrace"
        /\ pc = "parsed" => Len(program) = 1

\* The precedence table of the specification: the token of an operator as
\* written, and its level.
OperatorToken(op) ==
    CASE op = <<"|", "|">> -> "LogicalOr"
      [] op = <<"&", "&">> -> "LogicalAnd"
      [] op = <<"=", "=">> -> "EqualsEquals"
      [] op = <<"!", "=">> -> "NotEquals"
      [] op = <<">">> -> "GreaterThan"
      [] op = <<"<">> -> "LessThan"
      [] op = <<">", "=">> -> "GreaterThanEquals"
      [] op = <<"<", "=">> -> "LessThanEquals"
      [] op = <<"+">> -> "Plus"
      [] op = <<"-">> -> "Minus"
      [] op = <<"*">> -> "Star"
      [] op = <<"/">> -> "Slash"
      [] op = <<"%">> -> "Percent"

OperatorLevel(op) ==
    CASE op = <<"|", "|">> -> 2
      [] op = <<"&", "&">> -> 3
      [] op \in {<<"=", "=">>, <<"!", "=">>} -> 4
      [] op \in {<<">">>, <<"<">>, <<">", "=">>, <<"<", "=">>} -> 5
      [] op \in {<<"+">>, <<"-">>} -> 6
      [] op \in {<<"*">>, <<"/">>, <<"%">>} -> 7

RECURSIVE Shape(_)
\* An expression without its tokens: a name, or <<left, operator, right>>.
Shape(e) ==
    IF e.kind = "BinaryOperation"
    THEN <<Shape(e.left), e.operator.tag, Shape(e.right)>>
    ELSE IF e.kind = "Identifier" THEN e.name
    ELSE e.kind

\* The tree of `a <op1> b <op2> c` by the table: the operator of the higher
\* level binds tighter, operators of the same level group to the left.
TreeByTable(op1, op2) ==
    IF OperatorLevel(op2) > OperatorLevel(op1)
    THEN <<<<"a">>, OperatorToken(op1), <<<<"b">>, OperatorToken(op2), <<"c">>>>>>
    ELSE <<<<<<"a">>, OperatorToken(op1), <<"b">>>>, OperatorToken(op2), <<"c">>>>

\* C16: for binary operators the parser builds the tree given by the
\* precedence table (or=2, and=3, equality=4, relational=5, additive=6,
\* multiplicative=7): an operator of a higher level binds tighter and
\* operators of the same level group to the left.
C16_PrecedenceTree ==
    pc = "statement" =>
        \A op1, op2 \in BinaryOperatorLexemes :
            lexer.source = BinaryExpression(op1, op2) =>
                /\ stmt.kind = "Expression"
                /\ Shape(stmt.expression) = TreeByTable(op1, op2)

\* `a + b * c;`, `a * b + c;` and `a - b - c;` have each been parsed into a
\* statement.
C16_ExpressionParsed ==
    /\ pc = "statement"
    /\ lexer.source \in {BinaryExpression(<<"+">>, <<"*">>),
                         BinaryExpression(<<"*">>, <<"+">>),
                         BinaryExpression(<<"-">>, <<"-">>)}
    /\ stmt.kind = "Expression"
    /\ stmt.expression.kind = "BinaryOperation"

\* C17: a statement whose parse failed is discarded: parse_statement returns
\* a statement, and parse_program appends it to the program, only when no
\* syntax error was recorded while that statement was parsed.  (parse_program
\* appends every statement parse_statement returns.)
C17_FailedStatementDiscarded ==
    [][(pc = "parse_program" /\ pc' = "statement" /\ ~IsNone(stmt'))
          => parser'.errors = parser.errors]_vars

\* The two-character operators of the table, by their characters.
TwoCharacterOperators ==
    [PlusPlus |-> <<"+", "+">>, PlusEquals |-> <<"+", "=">>,
     MinusMinus |-> <<"-", "-">>, MinusEquals |-> <<"-", "=">>,
     StarEquals |-> <<"*", "=">>, SlashEquals |-> <<"/", "=">>,
     PercentEquals |-> <<"%", "=">>, EqualsEquals |-> <<"=", "=">>,
     EqualsGreaterThan |-> <<"=", ">">>, NotEquals |-> <<"!", "=">>,
     GreaterThanEquals |-> <<">", "=">>, LessThanEquals |-> <<"<", "=">>]

\* The single-character tokens of the nine characters.
SingleCharacterOperators ==
    [Plus |-> "+", Minus |-> "-", Star |-> "*", Slash |-> "/", Percent |-> "%",
     Equals |-> "=", LogicalNot |-> "!", GreaterThan |-> ">", LessThan |-> "<"]

\* C18: for each of `+ - * / % = ! > <`, when the character is immediately
\* followed by the second character of a two-character operator of the table,
\* the lexer emits exactly one token of the two-character kind for the pair
\* and no single-character token; otherwise it emits the single-character
\* token.
C18_TwoCharacterOperators ==
    \A c \in OperatorFirsts, d \in OperatorSeconds :
        (lexer.source = OperatorSource(c, d) /\ pc \notin {"Lexer::new", "tokenize"}) =>
            /\ lexer.panic = NoPanic
            /\ \A two \in DOMAIN TwoCharacterOperators :
                   TwoCharacterOperators[two] = <<c, d>> =>
                       TokenTypes(lexer.tokens) = <<TT(two), TT("EOF")>>
            /\ (\A two \in DOMAIN TwoCharacterOperators :
                    TwoCharacterOperators[two] # <<c, d>>) =>
                   \E one \in DOMAIN SingleCharacterOperators :
                       /\ SingleCharacterOperators[one] = c
                       /\ Len(lexer.tokens) >= 2
                       /\ lexer.tokens[1].token_type = TT(one)

\* The token of a pair of equal characters `&&` or `||`.
LogicalOperator(c) == IF c = "&" THEN TT("LogicalAnd") ELSE TT("LogicalOr")

\* C19: the two characters `&&` produce exactly one LogicalAnd token and `||`
\* exactly one LogicalOr token, with no lexical error recorded for either
\* character of the pair; a lexical error for `&` or `|` is recorded only
\* when the character is not part of such a pair.
C19_LogicalPairs ==
    \A c \in {"&", "|"}, d \in {"&", "|", ";"} :
        (lexer.source = LogicalSource(c, d) /\ pc \notin {"Lexer::new", "tokenize"}) =>
            /\ lexer.panic = NoPanic
            /\ c = d => /\ TokenTypes(lexer.tokens) = <<LogicalOperator(c), TT("EOF")>>
                        /\ lexer.errors = <<>>
            /\ lexer.errors # <<>> => c # d

\* The source has one `"` after the character Lexer::new drops: the scanner
\* meets it, and no closing quote follows.
LoneQuote(source) == Cardinality({i \in 2..Len(source) : source[i] = QUOTE}) = 1

UnterminatedErrors(errors) ==
    {i \in 1..Len(errors) : errors[i].message = <<"Unterminated string literal">>}

\* C20: when the scanner meets a `"` that has no closing quote in the rest of
\* the source, it records one unterminated-string lexical error, emits no
\* String token for it, and lexing continues past it so that tokenize still
\* terminates with EOF.
C20_UnterminatedString ==
    LoneQuote(lexer.source) =>
        /\ Cardinality(UnterminatedErrors(lexer.errors)) <= 1
        /\ TokensTagged(lexer.tokens, "String") = {}
        /\ (pc = "tokenize" /\ UnterminatedErrors(lexer.errors) # {})
               => lexer.current_char # QUOTE

\* The scanner meets `/*` at offset i of the source (only letters, digits,
\* blanks, newlines and `;` come before it, after the character Lexer::new
\* drops), and no `*/` closes it.
UnterminatedCommentAt(source, i) ==
    /\ i + 1 <= Len(source)
    /\ source[i] = "/" /\ source[i + 1] = "*"
    /\ \A j \in 2..(i - 1) : source[j] \in {"a", "1", " ", NL, ";"}
    /\ \A j \in (i + 2)..(Len(source) - 1) : ~(source[j] = "*" /\ source[j + 1] = "/")

UnterminatedComment(source) ==
    \E i \in 2..Len(source) : UnterminatedCommentAt(source, i)

\* C21: when the scanner meets `/*` with no closing `*/` in the rest of the
\* source, the comment consumes every remaining character up to end of input:
\* no error is recorded, no further token except EOF is emitted, and tokenize
\* terminates.
C21_UnterminatedCommentTerminates ==
    (pc = "tokenize" /\ UnterminatedComment(lexer.source))
        ~> (pc = "tokenized" /\ lexer.errors = <<>> /\ LastIsEOF(lexer.tokens))

\* C22: for a character that starts no token, comment or whitespace, the
\* lexer records exactly one lexical error carrying the current line and
\* column, emits no token, advances past exactly that one character and
\* continues scanning with the next character (here the identifier `a`).
C22_UnexpectedCharacterSkipped ==
    \A c \in UnexpectedCharacters :
        lexer.source = UnexpectedSource(c) =>
            /\ lexer.panic = NoPanic
            /\ pc \notin {"Lexer::new", "tokenize"} =>
                  /\ lexer.errors = <<[message |-> <<"Unexpected character", c>>,
                                       line |-> 1, column |-> 2]>>
                  /\ TokenTypes(lexer.tokens)
                       = <<TTV("Identifier", <<"a">>), TT("EOF")>>

\* The number of newline characters of the source.
Newlines(source) == Cardinality({i \in 1..Len(source) : source[i] = NL})

\* C23: the line recorded on every token equals 1 plus the number of newline
\* characters that precede the token in the source, counting newlines that
\* are the first character of the source, that lie inside skipped block
\* comments and that lie inside string literals.  Stated for the EOF token,
\* which every newline of the source precedes.
C23_LineCountsNewlines ==
    (pc \notin {"Lexer::new", "tokenize"} /\ lexer.panic = NoPanic) =>
        lexer.tokens[Len(lexer.tokens)].line = 1 + Newlines(lexer.source)

\* The token of an assignment operator as written.
AssignmentToken(op) ==
    CASE op = <<"=">> -> "Equals"
      [] op = <<"+", "=">> -> "PlusEquals"
      [] op = <<"-", "=">> -> "MinusEquals"
      [] op = <<"*", "=">> -> "StarEquals"
      [] op = <<"/", "=">> -> "SlashEquals"
      [] op = <<"%", "=">> -> "PercentEquals"

RECURSIVE AssignmentShape(_)
\* An expression without its positions: a name, or <<left, operator, right>>
\* for an assignment.
AssignmentShape(e) ==
    IF e.kind = "Assignment"
    THEN <<AssignmentShape(e.left), e.token.token_type.tag, AssignmentShape(e.right)>>
    ELSE IF e.kind = "Identifier" THEN e.name
    ELSE e.kind

\* C24: assignment-family operators are right-associative: parsing
\* `a = b = c` yields Assignment(a, Assignment(b, c)), never
\* Assignment(Assignment(a, b), c), and likewise for chains of
\* `+= -= *= /= %=`.
C24_AssignmentRightAssociative ==
    pc = "statement" =>
        \A op1, op2 \in AssignmentOperatorLexemes :
            lexer.source = BinaryExpression(op1, op2) =>
                /\ stmt.kind = "Expression"
                /\ AssignmentShape(stmt.expression)
                     = <<<<"a">>, AssignmentToken(op1),
                         <<<<"b">>, AssignmentToken(op2), <<"c">>>>>>

RECURSIVE UnaryShape(_)
\* An expression without its positions: a name, <<operator, operand>> or
\* <<left, operator, right>>.
UnaryShape(e) ==
    IF e.kind = "BinaryOperation"
    THEN <<UnaryShape(e.left), e.operator.tag, UnaryShape(e.right)>>
    ELSE IF e.kind = "UnaryOperation"
    THEN <<e.operator.tag, UnaryShape(e.operand)>>
    ELSE IF e.kind = "Identifier" THEN e.name
    ELSE e.kind

PrefixToken(prefix) == IF prefix = <<"-">> THEN "Minus" ELSE "LogicalNot"

\* C25: a unary prefix operator (`-` or `!`) binds at level 7: its operand is
\* parsed with minimum precedence 7, so `-a + b` parses as
\* BinaryOperation(UnaryOperation(-, a), +, b) and `!a == b` as
\* BinaryOperation(UnaryOperation(!, a), ==, b), never with the binary
\* operation as the operand.  Stated for every binary operator of level at
\* most 7.
C25_PrefixBindsAtLevel7 ==
    pc = "statement" =>
        \A prefix \in PrefixOperatorLexemes, op \in BinaryOperatorLexemes :
            lexer.source = PrefixExpression(prefix, op) =>
                /\ stmt.kind = "Expression"
                /\ UnaryShape(stmt.expression)
                     = <<<<PrefixToken(prefix), <<"a">>>>, OperatorToken(op), <<"b">>>>

RECURSIVE AccessShape(_)
\* An expression without its positions: a name, or the kind of the access
\* with its parts.
AccessShape(e) ==
    CASE e.kind = "MemberAccess" -> <<"MemberAccess", AccessShape(e.object), e.member>>
      [] e.kind = "FunctionCall" ->
           <<"FunctionCall", AccessShape(e.callee),
             [i \in 1..Len(e.arguments) |-> AccessShape(e.arguments[i])]>>
      [] e.kind = "IndexAccess" -> <<"IndexAccess", AccessShape(e.array), AccessShape(e.index)>>
      [] e.kind = "Identifier" -> e.name
      [] OTHER -> e.kind

\* C26: call, index and member access compose left to right in one
\* expression parse: `a.b(c)[d]` yields
\* IndexAccess(FunctionCall(MemberAccess(a, b), [c]), d) with no syntax error,
\* and a member access `x.name` succeeds for any identifier name after the
\* dot.
C26_AccessChain ==
    pc = "statement" =>
        /\ lexer.source = AccessChain =>
              /\ parser.errors = <<>>
              /\ stmt.kind = "Expression"
              /\ AccessShape(stmt.expression)
                   = <<"IndexAccess",
                       <<"FunctionCall", <<"MemberAccess", <<"a">>, <<"b">>>>,
                         << <<"c">> >> >>,
                       <<"d">>>>
        /\ lexer.source = MemberAccessXName =>
              /\ parser.errors = <<>>
              /\ stmt.kind = "Expression"
              /\ AccessShape(stmt.expression)
                   = <<"MemberAccess", <<"x">>, <<"n", "a", "m", "e">>>>

\* C27: inside a class or interface body, a malformed member does not abort
\* the declaration: after the member fails, the parser advances only until it
\* reaches `;`, `}` or end of input, then goes on with the remaining members,
\* and the declaration is still returned with every well-formed member (one
\* here); the member-level recovery loop stops at EOF when no `;` or `}`
\* follows.
C27_MemberRecovery ==
    /\ lexer.source \in {ClassWithMalformedMember, InterfaceWithMalformedMember} =>
          parser.panic = NoPanic
    /\ (lexer.source = ClassWithMalformedMember /\ pc = "statement" /\ program = <<>>) =>
          /\ stmt.kind = "ClassDeclaration"
          /\ Len(stmt.members) = 1
    /\ (lexer.source = InterfaceWithMalformedMember /\ pc = "statement" /\ program = <<>>) =>
          /\ stmt.kind = "InterfaceDeclaration"
          /\ Len(stmt.members) = 1

\* C28: a malformed nested expression at a call site that assumes success
\* raises an unrecoverable failure instead of a recoverable diagnostic: when
\* a call argument, a switch subject or case expression, or a for-clause
\* expression fails to parse (parse_expression returns None), the parser
\* reaches a failing unwrap rather than returning None to the nearest
\* synchronization point: parse_statement does not return.
C28_NestedFailurePanics ==
    lexer.source \in MalformedNestedExpressions =>
        /\ pc \notin {"statement", "parsed"}
        /\ program = <<>>
        /\ pc = "panic" =>
              /\ parser.panic = "called Option::unwrap() on a None value"
              /\ parser.errors # <<>>

\* The parse of one of the malformed statements has ended in the failing
\* unwrap, after the diagnostic of the nested expression.
C28_UnwrapFailed ==
    /\ lexer.source \in MalformedNestedExpressions
    /\ pc = "panic"
    /\ parser.panic = "called Option::unwrap() on a None value"
    /\ Len(parser.errors) = 1

\* s is a prefix of t.
IsPrefix(s, t) == Len(s) <= Len(t) /\ SubSeq(t, 1, Len(s)) = s

\* C29: no statement is dropped silently: whenever parse_statement returns no
\* statement, at least one diagnostic was appended to the parser's error list
\* during that call, so a program shorter than the number of statements
\* written always comes with a non-empty error list; the error list is
\* append-only.
C29_NoSilentDrop ==
    [][/\ (pc = "parse_program" /\ pc' = "statement" /\ IsNone(stmt'))
             => Len(parser'.errors) > Len(parser.errors)
       /\ pc \in {"parse_program", "statement"}
             => IsPrefix(parser.errors, parser'.errors)]_vars

\* parse_statement has returned no statement for the second statement of a
\* source, with a diagnostic, after the first one was appended.
C29_StatementDropped ==
    /\ pc = "statement"
    /\ IsNone(stmt)
    /\ program # <<>>
    /\ parser.errors # <<>>

\* The token that follows the primary expression a statement of
\* PrimaryStatements starts with.
TokenAfterPrimary(source) == IF source = ThisMember THEN TT("Dot") ELSE TT("Semicolon")

\* C30: cursor convention of expression parsing: every primary-expression
\* parse that succeeds (identifier, literal, parenthesized expression, `this`)
\* leaves current_token on the last token of the expression it parsed, so
\* that the token following the expression is peek_token; in particular after
\* parsing `this` in `this.x`, peek_token is the `.`.  Stated for the primary
\* expression the first statement of the source starts with.
C30_CursorOnLastToken ==
    (pc = "parse_program" /\ program = <<>> /\ lexer.source \in PrimaryStatements) =>
        LET Q == PrimaryExpression(Enter([kind |-> "parse_expression"], parser))
        IN (Q.panic = NoPanic /\ ~IsNone(Q.r)) =>
               Q.peek_token.token_type = TokenAfterPrimary(lexer.source)
====
